---- MODULE Spec2Model ----
(***************************************************************************)
(* Horizon 60 (src/app.js): the account / holding state, its valuation,    *)
(* its persistence to localStorage, the price synchronisation, the         *)
(* forecast functions and the start-up, as a state machine.  One action    *)
(* per event handler; an async function is one action per stretch of code  *)
(* between two awaits.                                                     *)
(***************************************************************************)
EXTENDS Integers, Sequences, FiniteSets, TLC

VARIABLES
  accounts,                   \* state.accounts
  priceCache,                 \* state.priceCache: ticker -> price
  apiKey,                     \* state.apiKey (mirrors localStorage horizon60_apiKey)
  pendingAddAccountHoldings,  \* holdings parsed from CSV in the Add Account modal
  storedAccounts,             \* localStorage['horizon60_accounts'], as the JSON value
  saveTimer,                  \* scheduleSave._tid and the pending timeouts of scheduleSave
  syncs,                      \* the refreshAllPrices calls that have not returned
  expandedAccountId,          \* state.expandedAccountId (0: null)
  netWorthShown,              \* the amount renderNetWorth last wrote to net-worth-hero
  localStorage,               \* the items of localStorage as the loading page finds them
  forecast,                   \* the arguments and results of the forecast functions
  lastOp                      \* how the last handler ended: "done", or "rejected" by a form check

vars == <<accounts, priceCache, apiKey, pendingAddAccountHoldings, storedAccounts,
          saveTimer, syncs, expandedAccountId, netWorthShown, localStorage, forecast,
          lastOp>>

----------------------------------------------------------------------------
(* Bounds of the model *)

MaxObjects == 2
MaxSyncs == 2
MaxRows == 2

----------------------------------------------------------------------------
(* JavaScript values: a finite number, undefined (also: a missing property),
   null, NaN, and the two infinities (v is the sign) *)

Num(n) == [k |-> "num", v |-> n]
Undef == [k |-> "undefined", v |-> 0]
Null == [k |-> "null", v |-> 0]
NaN == [k |-> "nan", v |-> 0]
Inf(sign) == [k |-> "inf", v |-> sign]
Infinity == Inf(1)

IsNum(x) == x.k = "num"
IsInf(x) == x.k = "inf"
\* x == null  (true of null and undefined)
IsNullish(x) == x.k \in {"undefined", "null"}
\* Number.isNaN(x)
IsNaN(x) == x.k = "nan"
\* Number(x) || 0
NumberOr0(x) == IF IsNum(x) THEN x.v ELSE 0

\* a ticker property that is missing (Cash / Debt holdings have none)
NoTicker == "<undefined>"
\* !!s for a string-or-undefined
Truthy(s) == s # NoTicker /\ s # ""

\* String.prototype.trim on the texts the model types into a field
Trim(s) == CASE s = " " -> "" [] s = " aapl" -> "aapl" [] OTHER -> s
\* String.prototype.toUpperCase on the tickers of the model
ToUpperCase(s) == CASE s = "aapl" -> "AAPL" [] s = "btc" -> "BTC" [] OTHER -> s
\* String.prototype.toLowerCase, for the CSV Type column
ToLowerCase(s) == CASE s = "Crypto" -> "crypto" [] s = "CASH" -> "cash" [] OTHER -> s

\* parseFloat on the texts the model types into a numeric field
FloatOf == ("-1" :> -1) @@ ("0" :> 0) @@ ("1" :> 1) @@ ("2" :> 2) @@ ("3" :> 3) @@ ("5" :> 5)
parseFloat(s) == IF s \in DOMAIN FloatOf THEN Num(FloatOf[s]) ELSE NaN
\* parseFloat(s) || 0
parseFloatOr0(s) == NumberOr0(parseFloat(s))

\* a / b for the operands of the model, where b divides a
Quot(a, b) == a \div b

\* Number(x) || 0 as a value: NaN, 0, null and undefined give 0, an infinity
\* stays
NumberOrZero(x) == IF IsNum(x) \/ IsInf(x) THEN x ELSE Num(0)
\* x > 0
Positive(x) == (IsNum(x) \/ IsInf(x)) /\ x.v > 0
\* the sign of a number or an infinity
Sign(x) == IF x.v > 0 THEN 1 ELSE IF x.v < 0 THEN -1 ELSE 0

\* a * b on numbers, infinities and NaN
Times(a, b) ==
  IF IsNum(a) /\ IsNum(b) THEN Num(a.v * b.v)
  ELSE IF IsNaN(a) \/ IsNaN(b) THEN NaN
  ELSE IF Sign(a) = 0 \/ Sign(b) = 0 THEN NaN
  ELSE Inf(Sign(a) * Sign(b))

\* a + b on numbers, infinities and NaN
Plus(a, b) ==
  IF IsNum(a) /\ IsNum(b) THEN Num(a.v + b.v)
  ELSE IF IsNaN(a) \/ IsNaN(b) THEN NaN
  ELSE IF IsInf(a) /\ IsInf(b) THEN (IF a.v = b.v THEN a ELSE NaN)
  ELSE IF IsInf(a) THEN a ELSE b

\* a - b on numbers, infinities and NaN
Minus(a, b) == Plus(a, IF IsNaN(b) THEN NaN ELSE [k |-> b.k, v |-> 0 - b.v])

\* a / b on numbers, infinities and NaN (the sign of a zero is not kept)
Divide(a, b) ==
  IF IsNaN(a) \/ IsNaN(b) THEN NaN
  ELSE IF IsNum(a) /\ IsNum(b)
    THEN IF b.v # 0 THEN Num(Quot(a.v, b.v))
         ELSE IF a.v = 0 THEN NaN ELSE Inf(Sign(a))
  ELSE IF IsInf(a) /\ IsInf(b) THEN NaN
  ELSE IF IsInf(a) THEN Inf(IF Sign(b) < 0 THEN 0 - a.v ELSE a.v)
  ELSE Num(0)

----------------------------------------------------------------------------
(* Holding valuer and account aggregator *)

COINGECKO_IDS == {"BTC", "ETH", "SOL"}

isSecurityType(type) == type = "Retirement" \/ type = "Crypto"

\* variant: a legacy costBasis is taken for the price of one unit
getPurchasePrice_TotalCost(holding) ==
  IF ~IsNullish(holding.purchasePrice) /\ ~IsNaN(holding.purchasePrice)
    THEN holding.purchasePrice
  ELSE IF Positive(holding.costBasis) /\ Positive(NumberOrZero(holding.quantity))
    THEN holding.costBasis
  ELSE Null

getPurchasePrice(holding) ==
  LET qty == NumberOrZero(holding.quantity) IN
  IF ~IsNullish(holding.purchasePrice) /\ ~IsNaN(holding.purchasePrice)
    THEN holding.purchasePrice
  ELSE IF Positive(holding.costBasis) /\ Positive(qty)
    THEN Divide(holding.costBasis, qty)
  ELSE Null

HasCacheEntry(cache, ticker) ==
  ticker # NoTicker /\ ToUpperCase(ticker) \in DOMAIN cache

\* variant: the cached quote is consulted before the override
getCurrentPrice_CacheFirst(holding, cache) ==
  IF HasCacheEntry(cache, holding.ticker)
    THEN Num(cache[ToUpperCase(holding.ticker)])
  ELSE IF ~IsNullish(holding.priceOverride) /\ ~IsNaN(holding.priceOverride)
    THEN holding.priceOverride
  ELSE getPurchasePrice(holding)

getCurrentPrice(holding, cache) ==
  IF ~IsNullish(holding.priceOverride) /\ ~IsNaN(holding.priceOverride)
    THEN holding.priceOverride
  ELSE IF HasCacheEntry(cache, holding.ticker)
    THEN Num(cache[ToUpperCase(holding.ticker)])
  ELSE getPurchasePrice(holding)

\* variant: a security holding without a price is worth 0
getHoldingValue_ZeroWithoutPrice(holding, accountType, cache) ==
  IF isSecurityType(accountType)
    THEN LET price == getCurrentPrice(holding, cache)
         IN Times(NumberOrZero(holding.quantity), IF ~IsNullish(price) THEN price ELSE Num(0))
    ELSE NumberOrZero(holding.balance)

getHoldingValue(holding, accountType, cache) ==
  IF isSecurityType(accountType)
    THEN LET price == getCurrentPrice(holding, cache)
             qty == NumberOrZero(holding.quantity)
         IN IF ~IsNullish(price) THEN Times(qty, price) ELSE Null
    ELSE NumberOrZero(holding.balance)

RECURSIVE SumValues(_, _, _)
SumValues(holdings, accountType, cache) ==
  IF holdings = <<>> THEN Num(0)
  ELSE LET n == Len(holdings)
           v == getHoldingValue(holdings[n], accountType, cache)
           total == SumValues(SubSeq(holdings, 1, n - 1), accountType, cache)
       IN IF ~IsNullish(v) /\ ~IsNaN(v) THEN Plus(total, v) ELSE total

\* variant: one holding without a price makes the whole balance zero
getAccountBalance_NullPoisons(account, cache) ==
  IF \E j \in DOMAIN account.holdings :
       IsNullish(getHoldingValue(account.holdings[j], account.type, cache))
    THEN Num(0)
    ELSE SumValues(account.holdings, account.type, cache)

getAccountBalance(account, cache) == SumValues(account.holdings, account.type, cache)

\* variant: a Debt balance is added like any other
RECURSIVE NetWorthOf_DebtAdded(_, _)
NetWorthOf_DebtAdded(accts, cache) ==
  IF accts = <<>> THEN Num(0)
  ELSE Plus(NetWorthOf_DebtAdded(SubSeq(accts, 1, Len(accts) - 1), cache),
            getAccountBalance(accts[Len(accts)], cache))

RECURSIVE NetWorthOf(_, _)
NetWorthOf(accts, cache) ==
  IF accts = <<>> THEN Num(0)
  ELSE LET n == Len(accts)
           a == accts[n]
           bal == getAccountBalance(a, cache)
           nw == NetWorthOf(SubSeq(accts, 1, n - 1), cache)
       IN IF a.type = "Debt" THEN Minus(nw, bal) ELSE Plus(nw, bal)

getTotalNetWorth == NetWorthOf(accounts, priceCache)

\* variant: the cost basis of a security holding is its purchase price alone
getHoldingCostBasis_PerUnit(holding, accountType) ==
  IF ~isSecurityType(accountType) THEN Null ELSE getPurchasePrice(holding)

getHoldingCostBasis(holding, accountType) ==
  IF ~isSecurityType(accountType) THEN Null
  ELSE LET qty == NumberOrZero(holding.quantity)
           pp == getPurchasePrice(holding)
       IN IF ~IsNullish(pp) THEN Times(qty, pp) ELSE Null

getHoldingMarketValue(holding, accountType, cache) ==
  getHoldingValue(holding, accountType, cache)

getHoldingProfitLossDollar(holding, accountType, cache) ==
  IF ~isSecurityType(accountType) THEN Null
  ELSE LET costBasis == getHoldingCostBasis(holding, accountType)
           marketVal == getHoldingMarketValue(holding, accountType, cache)
       IN IF IsNullish(costBasis) \/ IsNullish(marketVal) THEN Null
          ELSE Minus(marketVal, costBasis)

getHoldingProfitLossPct(holding, accountType, cache) ==
  LET cb == getHoldingCostBasis(holding, accountType)
      pl == getHoldingProfitLossDollar(holding, accountType, cache)
  IN IF IsNullish(cb) \/ cb = Num(0) \/ IsNullish(pl) THEN Null
     ELSE Times(Divide(pl, cb), Num(100))

----------------------------------------------------------------------------
(* Records *)

\* { id, ticker, quantity, purchasePrice } as add-holding, the CSV imports and
\* submitAddAccount build it; the properties it lacks read as undefined
SecurityHolding(hid, ticker, quantity, purchasePrice) ==
  [id |-> hid, ticker |-> ticker, quantity |-> quantity, purchasePrice |-> purchasePrice,
   priceOverride |-> Undef, costBasis |-> Undef, balance |-> Undef]

\* { id, balance }
BalanceHolding(hid, balance) ==
  [id |-> hid, ticker |-> NoTicker, quantity |-> Undef, purchasePrice |-> Undef,
   priceOverride |-> Undef, costBasis |-> Undef, balance |-> balance]

Account(aid, name, type, institution, holdings) ==
  [id |-> aid, name |-> name, type |-> type, institution |-> institution, holdings |-> holdings]

\* state.accounts.find(a => a.id === accountId): its index, 0 when there is none
FindAccount(accts, accountId) ==
  IF \E i \in DOMAIN accts : accts[i].id = accountId
    THEN CHOOSE i \in DOMAIN accts : accts[i].id = accountId /\ \A j \in 1..(i - 1) : accts[j].id # accountId
    ELSE 0

\* account.holdings.find(h => h.id === holdingId): its index, 0 when there is none
FindHolding(holdings, holdingId) ==
  IF \E i \in DOMAIN holdings : holdings[i].id = holdingId
    THEN CHOOSE i \in DOMAIN holdings : holdings[i].id = holdingId /\ \A j \in 1..(i - 1) : holdings[j].id # holdingId
    ELSE 0

\* the ids in use, and the number of accounts and holdings
UsedIds(accts) ==
  {accts[i].id : i \in DOMAIN accts}
    \cup UNION {{accts[i].holdings[j].id : j \in DOMAIN accts[i].holdings} : i \in DOMAIN accts}
RECURSIVE Objects(_)
Objects(accts) ==
  IF accts = <<>> THEN 0 ELSE 1 + Len(Head(accts).holdings) + Objects(Tail(accts))

\* id(): Math.random().toString(36).slice(2), an opaque value that is only ever
\* compared for equality; the k-th call of a handler returns the k-th least
\* number that no account or holding uses
RECURSIVE id(_, _)
id(used, k) ==
  LET least == CHOOSE n \in 1..(Cardinality(used) + 1) :
                 n \notin used /\ \A m \in 1..(n - 1) : m \in used
  IN IF k = 1 THEN least ELSE id(used \cup {least}, k - 1)

----------------------------------------------------------------------------
(* Forecast: time value of money.  Months are whole numbers, whole numbers
   and a half, Infinity (no stop date) or NaN; amounts are whole numbers *)

\* n + 1/2
Half(n) == [k |-> "half", v |-> n]
\* Math.floor
Floor(x) == IF x.k = "half" THEN Num(x.v) ELSE x

\* a < b on whole numbers and infinities
Less(a, b) ==
  IF IsInf(a) THEN a.v < 0 /\ a # b
  ELSE IF IsInf(b) THEN b.v > 0
  ELSE a.v < b.v
\* Math.max(a, b), Math.min(a, b)
MathMax(a, b) == IF IsNaN(a) \/ IsNaN(b) THEN NaN ELSE IF Less(a, b) THEN b ELSE a
MathMin(a, b) == IF IsNaN(a) \/ IsNaN(b) THEN NaN ELSE IF Less(b, a) THEN b ELSE a

RECURSIVE Pow(_, _)
Pow(base, exponent) == IF exponent <= 0 THEN 1 ELSE base * Pow(base, exponent - 1)
\* Math.pow(base, exponent) for a whole base and a whole exponent >= 0 or NaN
MathPow(base, exponent) ==
  IF IsNaN(base) \/ IsNaN(exponent) THEN NaN ELSE Num(Pow(base.v, exponent.v))

\* (1 + annualPercent / 100)^(1/12) - 1 on the annual percentages whose monthly
\* rate is a whole number: 0 -> 0, 409500 -> 1 (2^12 = 4096), 53144000 -> 2 (3^12 = 531441)
MonthlyRates == (0 :> 0) @@ (409500 :> 1) @@ (53144000 :> 2)
monthlyRateFromAnnual(annualPercent) == Num(MonthlyRates[NumberOrZero(annualPercent).v])

\* variant: a stop after the end of the projection counts as no contribution
ContributionMonths_NoneWhenLate(monthsContributing, n) ==
  IF IsNaN(monthsContributing) THEN NaN
  ELSE IF Less(n, Floor(monthsContributing)) THEN Num(0)
  ELSE MathMax(Num(0), Floor(monthsContributing))

\* m: the months with a contribution
ContributionMonths(monthsContributing, n) ==
  MathMax(Num(0), MathMin(Floor(monthsContributing), n))

\* variant: the annuity formula is used for every rate
fvAnnuity_AlwaysDivides(pmtNum, i, m) ==
  Divide(Times(pmtNum, Minus(MathPow(Plus(Num(1), i), m), Num(1))), i)

fvAnnuity(pmtNum, i, m) ==
  IF i = Num(0) THEN Times(pmtNum, m)
  ELSE Divide(Times(pmtNum, Minus(MathPow(Plus(Num(1), i), m), Num(1))), i)

\* variant: nothing grows once the contributions have stopped
futureValueWithContributions_NoGrowthAfter(pv, pmt, annualPercent, monthsContributing, totalMonths) ==
  LET i == monthlyRateFromAnnual(annualPercent)
      pvNum == NumberOrZero(pv)
      n == MathMax(Num(0), Floor(totalMonths))
      m == ContributionMonths(monthsContributing, n)
  IN IF n = Num(0) THEN pvNum
     ELSE Plus(Times(pvNum, MathPow(Plus(Num(1), i), m)), fvAnnuity(NumberOrZero(pmt), i, m))

futureValueWithContributions(pv, pmt, annualPercent, monthsContributing, totalMonths) ==
  LET i == monthlyRateFromAnnual(annualPercent)
      pvNum == NumberOrZero(pv)
      pmtNum == NumberOrZero(pmt)
      n == MathMax(Num(0), Floor(totalMonths))
      m == ContributionMonths(monthsContributing, n)
      fvFromPv == Times(pvNum, MathPow(Plus(Num(1), i), n))
      valueAtM == Plus(Times(pvNum, MathPow(Plus(Num(1), i), m)), fvAnnuity(pmtNum, i, m))
  IN IF n = Num(0) THEN pvNum
     ELSE IF m = Num(0) THEN fvFromPv
     ELSE IF ~IsNaN(m) /\ ~Less(m, n) THEN valueAtM
     ELSE Times(valueAtM, MathPow(Plus(Num(1), i), Minus(n, m)))

RECURSIVE LeastPower(_, _, _, _)
LeastPower(base, num, den, k) ==
  IF Pow(base, k) * den >= num THEN k ELSE LeastPower(base, num, den, k + 1)
\* Math.ceil(Math.log(num / den) / Math.log(base)) for num >= den > 0 and a whole
\* base >= 1: the least k with base^k >= num / den; for base 1 the division
\* is by Math.log(1) = 0, which gives 0 / 0 = NaN when num = den
CeilLog(num, den, base) ==
  IF base = 1 THEN (IF num = den THEN NaN ELSE Infinity)
  ELSE Num(LeastPower(base, num, den, 0))

\* variant: the payment is checked before the balance
monthsToPayoffLoan_PaymentCheckFirst(pv, monthlyPmt, annualPercent) ==
  LET pvNum == NumberOrZero(pv).v
      pmtNum == NumberOrZero(monthlyPmt).v
      r == monthlyRateFromAnnual(annualPercent).v
  IN IF pmtNum <= 0 \/ pmtNum <= pvNum * r THEN Null
     ELSE IF pvNum <= 0 THEN Num(0)
     ELSE CeilLog(pmtNum, pmtNum - pvNum * r, 1 + r)

monthsToPayoffLoan(pv, monthlyPmt, annualPercent) ==
  LET pvNum == NumberOrZero(pv).v
      pmtNum == NumberOrZero(monthlyPmt).v
      r == monthlyRateFromAnnual(annualPercent).v
      monthlyInterest == pvNum * r
      months == CeilLog(pmtNum, pmtNum - pvNum * r, 1 + r)
  IN IF pvNum <= 0 THEN Num(0)
     ELSE IF pmtNum <= 0 THEN Null
     ELSE IF pmtNum <= monthlyInterest THEN Null
     ELSE IF ~IsNaN(months) /\ ~Less(Num(0), months) THEN Null
     ELSE months

\* the forecast functions have not been called
NoForecast ==
  [pv |-> Undef, pmt |-> Undef, annualPercent |-> Undef, monthsContributing |-> Undef,
   totalMonths |-> Undef, futureValue |-> Undef, monthsToPayoff |-> Undef]

----------------------------------------------------------------------------
(* Persistence *)

\* JSON.stringify of one value: NaN and the infinities are written as null,
\* undefined is left out
JsonValue(x) == IF IsNaN(x) \/ IsInf(x) THEN Null ELSE x

JsonHolding(h) ==
  [id |-> h.id, ticker |-> h.ticker, quantity |-> JsonValue(h.quantity),
   purchasePrice |-> JsonValue(h.purchasePrice), priceOverride |-> JsonValue(h.priceOverride),
   costBasis |-> JsonValue(h.costBasis), balance |-> JsonValue(h.balance)]

\* JSON.parse(JSON.stringify(state.accounts))
ToJSON(accts) ==
  [i \in DOMAIN accts |->
     [accts[i] EXCEPT !.holdings = [j \in DOMAIN accts[i].holdings |-> JsonHolding(accts[i].holdings[j])]]]

\* an item of localStorage: absent, a text that is not JSON, or the JSON value
\* it parses to ("null", a "number", an "object" with its properties, an
\* "array" with its elements)
Item(kind, value) == [k |-> kind, v |-> value]
Absent == Item("absent", <<>>)
NotJson == Item("text", <<>>)

\* no item is stored
NothingStored == [accounts |-> Absent, history |-> Absent, settings |-> Absent]

\* loadState: state.accounts after it, from the stored item and the list before
loadState(item, current) == IF item.k = "array" THEN item.v ELSE current

\* variant: whatever JSON.parse returns is taken for the history
getNetWorthHistory_ParsedAsIs(item) == IF item.k \in {"absent", "text"} THEN <<>> ELSE item.v

getNetWorthHistory(item) == IF item.k = "array" THEN item.v ELSE <<>>

\* formatMoney(n), for n nullish, NaN, infinite or a whole number; a quotient
\* that lies halfway between two roundings is rounded up.  The dash U+2014 is
\* written "--" and the infinity sign U+221E "oo"
formatMoney(n) ==
  IF IsNullish(n) \/ IsNaN(n) THEN "--"
  ELSE LET sign == IF Sign(n) < 0 THEN "-" ELSE ""
           abs == IF n.v < 0 THEN 0 - n.v ELSE n.v
           hundredths == (abs + 5000) \div 10000
           tenths == (abs + 50) \div 100
           s == IF IsInf(n) THEN "InfinityM"
                ELSE IF abs >= 1000000
                  THEN ToString(hundredths \div 100) \o "." \o ToString((hundredths % 100) \div 10)
                         \o ToString(hundredths % 10) \o "M"
                ELSE IF abs >= 1000
                  THEN ToString(tenths \div 10) \o "." \o ToString(tenths % 10) \o "k"
                ELSE ToString(abs) \o ".00"
       IN sign \o "$" \o s

\* formatMoneyFull(n), for n nullish, NaN, infinite or a whole number: the
\* en-US currency format with grouped thousands and two decimals
formatMoneyFull(n) ==
  IF IsNullish(n) \/ IsNaN(n) THEN "$0.00"
  ELSE LET RECURSIVE Grouped(_)
           Grouped(k) ==
             IF k < 1000 THEN ToString(k)
             ELSE Grouped(k \div 1000) \o "," \o ToString((k % 1000) \div 100)
                    \o ToString((k % 100) \div 10) \o ToString(k % 10)
           sign == IF Sign(n) < 0 THEN "-" ELSE ""
       IN IF IsInf(n) THEN sign \o "$oo"
          ELSE sign \o "$" \o Grouped(IF n.v < 0 THEN 0 - n.v ELSE n.v) \o ".00"

\* a.date.localeCompare(b.date) on the dates of the model: the value of a date
\* input is "" or a date YYYY-MM-DD, which compare as their ranks here do
DateRank == ("" :> 0) @@ ("2026-01-01" :> 1) @@ ("2026-01-02" :> 2) @@ ("2026-01-03" :> 3)

\* variant: the list is left in the order it has
SortByDate_AsIs(history) == history

\* history.sort((a, b) => a.date.localeCompare(b.date)): a stable sort
RECURSIVE SortByDate(_)
SortByDate(history) ==
  IF history = <<>> THEN <<>>
  ELSE LET n == Len(history)
           last == history[n]
           sorted == SortByDate(SubSeq(history, 1, n - 1))
           k == Cardinality({i \in DOMAIN sorted :
                               DateRank[sorted[i].date] - DateRank[last.date] <= 0})
       IN SubSeq(sorted, 1, k) \o <<last>> \o SubSeq(sorted, k + 1, n - 1)

\* saveNetWorthHistory(history), with the storage taking the write
saveNetWorthHistory(history) ==
  localStorage' = [localStorage EXCEPT !.history = Item("array", history)]

\* recordSnapshot on the day today
recordSnapshot(today) ==
  LET snapshot ==
        [date |-> today,
         totalNetWorth |-> JsonValue(getTotalNetWorth),
         accounts |-> [i \in DOMAIN accounts |->
                         LET balance == getAccountBalance(accounts[i], priceCache) IN
                         [id |-> accounts[i].id, name |-> accounts[i].name,
                          balance |-> JsonValue(IF accounts[i].type = "Debt"
                                                  THEN Minus(Num(0), balance) ELSE balance)]]]
      history == getNetWorthHistory(localStorage.history)
  IN saveNetWorthHistory(SortByDate(Append(history, snapshot)))

\* deleteSnapshot(index), index counted from 0
deleteSnapshot(index) ==
  LET history == getNetWorthHistory(localStorage.history) IN
  IF index < 0 \/ index >= Len(history) THEN UNCHANGED localStorage
  ELSE saveNetWorthHistory(SubSeq(history, 1, index) \o SubSeq(history, index + 2, Len(history)))

\* saveEditedSnapshot with edit-snapshot-index index (counted from 0; -1: not
\* a number), the date and the total of the form, and the text balanceText in
\* every balance field
saveEditedSnapshot(index, date, totalText, balanceText) ==
  LET history == getNetWorthHistory(localStorage.history)
      total == Num(parseFloatOr0(totalText))
      balance == parseFloat(balanceText)
  IN IF index < 0 \/ index >= Len(history)
       THEN IF date = "" THEN UNCHANGED localStorage
            ELSE saveNetWorthHistory(SortByDate(history))
     ELSE LET s == history[index + 1] IN
          IF s.accounts = <<>>
            THEN IF date = "" THEN UNCHANGED localStorage
                 ELSE saveNetWorthHistory(SortByDate(
                        [history EXCEPT ![index + 1] =
                           [date |-> date, totalNetWorth |-> total, accounts |-> <<>>]]))
            ELSE saveNetWorthHistory(SortByDate(
                   [history EXCEPT ![index + 1] =
                      [date |-> date, totalNetWorth |-> total,
                       accounts |-> [i \in DOMAIN s.accounts |->
                                       [s.accounts[i] EXCEPT !.balance =
                                          IF IsNaN(balance) THEN @ ELSE balance]]]]))

\* Number(x)
NumberOf(x) == IF IsNum(x) \/ IsInf(x) THEN x ELSE IF x = Null THEN Num(0) ELSE NaN
\* the settings returned when nothing usable is stored
DefaultSettings ==
  [horizonYears |-> Num(30), annualExpenses |-> Num(0), annualExpenseGrowthPercent |-> Num(3),
   accounts |-> Item("object", <<>>)]
\* the properties of a parsed value that is not an object with these
\* properties: all undefined
NoFields ==
  [horizonYears |-> Undef, annualExpenses |-> Undef, annualExpenseGrowthPercent |-> Undef,
   accounts |-> Undef]

getForecastSettings(item) ==
  IF item.k \in {"absent", "text", "null"} THEN DefaultSettings
  ELSE LET parsed == IF item.k = "object" THEN item.v[1] ELSE NoFields
           horizonYears == NumberOf(parsed.horizonYears)
           annualExpenses == NumberOf(parsed.annualExpenses)
       IN [horizonYears |-> IF IsNaN(horizonYears) \/ horizonYears = Num(0) THEN Num(30)
                            ELSE horizonYears,
           annualExpenses |-> IF IsNaN(annualExpenses) THEN Num(0) ELSE annualExpenses,
           annualExpenseGrowthPercent |-> NumberOf(parsed.annualExpenseGrowthPercent),
           accounts |-> IF parsed.accounts.k = "object" THEN parsed.accounts ELSE Item("object", <<>>)]

\* monthsUntil: the months from today to a "YYYY-MM-DD" text, rounded up; a
\* date that has passed gives 0 and a missing text gives Infinity. The counts
\* are those of a today in November 2026 for the dates of the model
\* (2055-04-21 is DEFAULT_CONTRIBUTION_STOP_DATE)
monthsUntil(stopDate) ==
  CASE stopDate = "" -> Infinity
    [] stopDate = "2020-01-01" -> Num(0)
    [] stopDate = "2055-04-21" -> Num(342)

\* settings.accounts[accountId] || {} of the stored forecast settings; the
\* text contributionStopDate is "" when the property is missing or null
forecastAccount(accountId) ==
  LET stored == getForecastSettings(localStorage.settings).accounts.v
  IN IF accountId \in DOMAIN stored THEN stored[accountId]
     ELSE [monthlyContribution |-> Undef, annualReturnPercent |-> Undef,
           contributionStopDate |-> ""]

getProjectedAccountBalance(accountId, yearsFromNow) ==
  LET ai == FindAccount(accounts, accountId)
      account == accounts[ai]
      pv == getAccountBalance(account, priceCache)
      settings == getForecastSettings(localStorage.settings)
      acc == forecastAccount(accountId)
      horizonMonths == Times(IF settings.horizonYears = Num(0) \/ IsNaN(settings.horizonYears)
                               THEN Num(30) ELSE settings.horizonYears, Num(12))
      totalMonths == MathMin(Times(Num(yearsFromNow), Num(12)), horizonMonths)
      monthlyPmt == NumberOrZero(NumberOf(acc.monthlyContribution))
      annual == NumberOrZero(NumberOf(acc.annualReturnPercent))
      payoffMonths == monthsToPayoffLoan(pv, monthlyPmt, annual)
      monthsContrib ==
        IF account.type = "Debt"
          THEN (IF IsNullish(payoffMonths) THEN totalMonths
                ELSE MathMin(payoffMonths, totalMonths))
          ELSE MathMin(monthsUntil(IF acc.contributionStopDate # ""
                                     THEN acc.contributionStopDate ELSE "2055-04-21"),
                       totalMonths)
      pmt == IF account.type = "Debt" THEN Minus(Num(0), monthlyPmt) ELSE monthlyPmt
      fv == futureValueWithContributions(pv, pmt, annual, monthsContrib, totalMonths)
  IN IF ai = 0 THEN Num(0) ELSE MathMax(Num(0), fv)

getProjectedTotalNetWorth(yearsFromNow) ==
  LET RECURSIVE Total(_)
      Total(n) ==
        IF n = 0 THEN Num(0)
        ELSE LET bal == getProjectedAccountBalance(accounts[n].id, yearsFromNow)
             IN IF accounts[n].type = "Debt" THEN Minus(Total(n - 1), bal)
                ELSE Plus(Total(n - 1), bal)
  IN Total(Len(accounts))

\* variant: the handlers leave the write to the timer of scheduleSave
saveState_LeftToTimer(accts, throws) ==
  storedAccounts' = storedAccounts

\* saveState: localStorage.setItem inside try/catch; a throwing write leaves the stored value
saveState(accts, throws) ==
  storedAccounts' = (IF throws THEN storedAccounts ELSE ToJSON(accts))

\* the idle delay of scheduleSave (400 ms), in ticks of the clock
SaveDelay == 2

\* scheduleSave has not run: no _tid, no timeout
NoTimer == [tid |-> 0, pending |-> {}]

\* variant: the timeout of the render before is not cancelled
scheduleSave_NoCancel(timer) ==
  LET new == CHOOSE n \in 1..(Cardinality(timer.pending) + 1) :
               /\ \A t \in timer.pending : t.id # n
               /\ \A m \in 1..(n - 1) : \E t \in timer.pending : t.id = m
  IN [tid |-> new, pending |-> timer.pending \cup {[id |-> new, left |-> SaveDelay]}]

\* scheduleSave: clearTimeout(scheduleSave._tid), then setTimeout(saveState, 400),
\* whose id (an opaque value) is the least number no pending timeout has
scheduleSave(timer) ==
  LET cleared == {t \in timer.pending : t.id # timer.tid}
      new == CHOOSE n \in 1..(Cardinality(cleared) + 1) :
               /\ \A t \in cleared : t.id # n
               /\ \A m \in 1..(n - 1) : \E t \in cleared : t.id = m
  IN [tid |-> new, pending |-> cleared \cup {[id |-> new, left |-> SaveDelay]}]

\* render (the wrapper of line 1716): _render() and scheduleSave()
render ==
  /\ netWorthShown' = NetWorthOf(accounts', priceCache')
  /\ saveTimer' = scheduleSave(saveTimer)

----------------------------------------------------------------------------
(* Price synchronisation: refreshAllPrices, fetchQuote, fetchQuoteCoinGecko *)

\* what the network gives back to one fetch: the request throws, or it resolves
\* (res.ok or not) with a body
Responses ==
  {[status |-> "throw", body |-> "garbage"]}
    \cup [status : {"ok", "notok"}, body : {"garbage", "0", "7"}]

\* the price a body holds: data.c / data[id].usd when it is a number, else null
QuoteOf == ("0" :> 0) @@ ("7" :> 7)
parseResponse(body) == IF body \in DOMAIN QuoteOf THEN Num(QuoteOf[body]) ELSE Null

\* variant: a quote is cached whenever the body holds a number
CacheQuote_AnyNumber(cache, sym, price) ==
  IF ~IsNullish(price) THEN (sym :> price.v) @@ cache ELSE cache

\* if (price != null && price > 0) state.priceCache[sym] = { price, at }
CacheQuote(cache, sym, price) ==
  IF ~IsNullish(price) /\ price.v > 0 THEN (sym :> price.v) @@ cache ELSE cache

\* Set.prototype.add on a set kept in insertion order
SetAdd(seq, t) == IF \E i \in DOMAIN seq : seq[i] = t THEN seq ELSE Append(seq, t)

\* the <<account type, ticker>> of every holding of a Retirement or Crypto account, in order
RECURSIVE SecurityTickers(_)
SecurityTickers(accts) ==
  IF accts = <<>> THEN <<>>
  ELSE LET a == Head(accts) IN
       (IF isSecurityType(a.type)
          THEN [j \in DOMAIN a.holdings |-> <<a.type, a.holdings[j].ticker>>]
          ELSE <<>>) \o SecurityTickers(Tail(accts))

\* the two ticker sets refreshAllPrices builds (lines 347-357)
RECURSIVE TickerSets(_, _, _)
TickerSets(pairs, crypto, ret) ==
  IF pairs = <<>> THEN [crypto |-> crypto, ret |-> ret]
  ELSE LET type == Head(pairs)[1]
           ticker == Head(pairs)[2]
           t == ToUpperCase(Trim(ticker))
       IN IF ~Truthy(ticker) THEN TickerSets(Tail(pairs), crypto, ret)
          ELSE IF type = "Crypto" \/ t \in COINGECKO_IDS
            THEN TickerSets(Tail(pairs), SetAdd(crypto, t), ret)
            ELSE TickerSets(Tail(pairs), crypto, SetAdd(ret, t))

\* variant: the loop over the Retirement tickers is skipped
NextAwait_CryptoOnly(run, key) ==
  IF run.crypto # <<>> THEN [run EXCEPT !.pc = "cgDirect"]
  ELSE [run EXCEPT !.pc = "done"]

\* from the head of the loops of refreshAllPrices to its next await:
\* the first fetch of fetchQuoteCoinGecko, the fetch of fetchQuote, the 300 ms
\* delay when there is no key, or the end of the function
NextAwait(run, key) ==
  IF run.crypto # <<>> THEN [run EXCEPT !.pc = "cgDirect"]
  ELSE IF run.ret # <<>> THEN [run EXCEPT !.pc = (IF key # "" THEN "fhFetch" ELSE "fhSleep")]
  ELSE [run EXCEPT !.pc = "done"]

NewRun(accts, key) ==
  LET sets == TickerSets(SecurityTickers(accts), <<>>, <<>>)
  IN NextAwait([crypto |-> sets.crypto, ret |-> sets.ret, pc |-> "head"], key)

FetchPcs == {"cgDirect", "cgRetry", "cgFallback", "fhFetch"}

\* a call of refreshAllPrices up to its first await; with no ticker it reaches
\* its final render() at once
refreshAllPrices(accts, key) ==
  LET run == NewRun(accts, key) IN
  IF run.pc = "done" THEN syncs' = syncs
  ELSE Len(syncs) < MaxSyncs /\ syncs' = Append(syncs, run)

\* a run that moved on to run2: it stays in the list, or it has reached render()
Continue(i, run2) ==
  IF run2.pc = "done"
    THEN syncs' = SubSeq(syncs, 1, i - 1) \o SubSeq(syncs, i + 1, Len(syncs)) /\ render
    ELSE syncs' = [syncs EXCEPT ![i] = run2] /\ UNCHANGED <<saveTimer, netWorthShown>>

\* fetchQuoteCoinGecko: a fetch settles (lines 205-231)
CoinGeckoResponse(i, resp) ==
  /\ i \in DOMAIN syncs
  /\ syncs[i].pc \in {"cgDirect", "cgRetry", "cgFallback"}
  /\ LET run == syncs[i]
         sym == Head(run.crypto)
     IN \/ /\ resp.status = "throw"
           /\ run.pc \in {"cgDirect", "cgRetry"}
           /\ syncs' = [syncs EXCEPT ![i].pc = "cgFallback"]
           /\ UNCHANGED priceCache
        \/ /\ resp.status = "throw"
           /\ run.pc = "cgFallback"
           /\ syncs' = [syncs EXCEPT ![i].pc = "cgSleep"]
           /\ UNCHANGED priceCache
        \/ /\ resp.status = "notok"
           /\ run.pc = "cgDirect"
           /\ syncs' = [syncs EXCEPT ![i].pc = "cgRetry"]
           /\ UNCHANGED priceCache
        \/ /\ resp.status # "throw"
           /\ resp.status = "ok" \/ run.pc # "cgDirect"
           /\ priceCache' = CacheQuote(priceCache, sym, parseResponse(resp.body))
           /\ syncs' = [syncs EXCEPT ![i].pc = "cgSleep"]
  /\ UNCHANGED <<accounts, apiKey, pendingAddAccountHoldings, storedAccounts, saveTimer,
                 expandedAccountId, netWorthShown, lastOp>>

\* variant: a fetch that brings no quote drops the cached one
FinnhubResponse_FailureDrops(i, resp) ==
  /\ i \in DOMAIN syncs
  /\ syncs[i].pc = "fhFetch"
  /\ LET sym == Head(syncs[i].ret)
         price == parseResponse(resp.body)
     IN priceCache' = (IF resp.status # "throw" /\ ~IsNullish(price) /\ price.v > 0
                         THEN CacheQuote(priceCache, sym, price)
                         ELSE [k \in DOMAIN priceCache \ {sym} |-> priceCache[k]])
  /\ syncs' = [syncs EXCEPT ![i].pc = "fhSleep"]
  /\ UNCHANGED <<accounts, apiKey, pendingAddAccountHoldings, storedAccounts, saveTimer,
                 expandedAccountId, netWorthShown, lastOp>>

\* fetchQuote: its fetch settles (lines 159-177)
FinnhubResponse(i, resp) ==
  /\ i \in DOMAIN syncs
  /\ syncs[i].pc = "fhFetch"
  /\ LET sym == Head(syncs[i].ret)
     IN priceCache' = (IF resp.status = "throw" THEN priceCache
                       ELSE CacheQuote(priceCache, sym, parseResponse(resp.body)))
  /\ syncs' = [syncs EXCEPT ![i].pc = "fhSleep"]
  /\ UNCHANGED <<accounts, apiKey, pendingAddAccountHoldings, storedAccounts, saveTimer,
                 expandedAccountId, netWorthShown, lastOp>>

\* refreshAllPrices: the delay after a ticker has elapsed (lines 360, 364)
DelayElapsed(i) ==
  /\ i \in DOMAIN syncs
  /\ syncs[i].pc \in {"cgSleep", "fhSleep"}
  /\ UNCHANGED <<accounts, priceCache, apiKey, pendingAddAccountHoldings, storedAccounts,
                 expandedAccountId, lastOp>>
  /\ LET run == syncs[i]
         rest == IF run.pc = "cgSleep" THEN [run EXCEPT !.crypto = Tail(run.crypto)]
                 ELSE [run EXCEPT !.ret = Tail(run.ret)]
         run2 == NextAwait(rest, apiKey)
     IN Continue(i, run2)

----------------------------------------------------------------------------
(* What the user types and picks *)

TypeInputs == {"", "Cash", "Retirement"}
\* the security fields of the holding forms: valid fields, and the invalid
\* tickers and quantities next to otherwise valid fields
HoldingForm(ticker, quantity, purchasePrice, currentPrice) ==
  [ticker |-> ticker, quantity |-> quantity, purchasePrice |-> purchasePrice,
   currentPrice |-> currentPrice]
HoldingForms ==
  {HoldingForm(" aapl", "2", "", ""), HoldingForm(" aapl", "2", "", "-1"),
   HoldingForm(" aapl", "2", "abc", "5")}
    \cup {HoldingForm(t, "2", "abc", "5") : t \in {"", " "}}
    \cup {HoldingForm(" aapl", q, "abc", "5") : q \in {"", "abc", "0", "-1", "2"}}
\* whether localStorage.setItem throws: the storage never runs out of quota
StorageThrows == {FALSE}

\* the rows parseCSV returns: one record per line, a missing column reads as ""
CsvRow(ticker, symbol, quantity, cost, name, type) ==
  [Ticker |-> ticker, Symbol |-> symbol, Quantity |-> quantity, AverageCostBasis |-> cost,
   AccountName |-> name, Type |-> type]
CsvFiles ==
  LET CsvRows == { CsvRow("btc", "", "2", "$3", "IRA", ""),
                   CsvRow("", "", "2", "3", "", "CASH"),
                   CsvRow("", "btc", "0", "", "IRA", "") }
  IN UNION {[1..n -> CsvRows] : n \in 0..MaxRows}

----------------------------------------------------------------------------
(* CSV import *)

\* String(x).replace(/[$,]/g, '') on the cost texts of the model
StripMoney(s) == CASE s = "$3" -> "3" [] OTHER -> s

\* s.includes(part) on the type texts of the model
Includes(s, part) == s = part

mapCSVTypeToAccountType(typeStr) ==
  LET t == ToLowerCase(typeStr) IN
  IF Includes(t, "cash") THEN "Cash"
  ELSE IF Includes(t, "debt") \/ Includes(t, "loan") THEN "Debt"
  ELSE IF Includes(t, "crypto") THEN "Crypto"
  ELSE "Retirement"

parseCSVRowToHolding(row) ==
  LET ticker == Trim(IF row.Ticker # "" THEN row.Ticker ELSE row.Symbol)
      qty == parseFloatOr0(row.Quantity)
      avgCost == parseFloatOr0(StripMoney(row.AverageCostBasis))
  IN [ticker |-> (IF ticker # "" THEN ToUpperCase(ticker) ELSE ""),
      quantity |-> Num(qty),
      purchasePrice |-> (IF avgCost > 0 THEN Num(avgCost) ELSE Undef)]

\* the loop shared by the three imports: the parsed rows that are kept
parseCSVRowsToHoldings(rows, type) ==
  LET isSecurity == type = "Retirement" \/ type = "Crypto"
      parsed == [i \in DOMAIN rows |-> parseCSVRowToHolding(rows[i])]
  IN SelectSeq(parsed, LAMBDA h : isSecurity /\ Truthy(h.ticker))

\* the kept rows as holdings { id: id(), ticker, quantity, purchasePrice }
WithIds(list, used) ==
  [i \in DOMAIN list |->
     SecurityHolding(id(used, i), list[i].ticker, list[i].quantity, list[i].purchasePrice)]

\* the keys of byAccount, in insertion order (lines 282-287)
RECURSIVE AccountNames(_, _)
AccountNames(rows, names) ==
  IF rows = <<>> THEN names
  ELSE LET name == Trim(Head(rows).AccountName)
       IN AccountNames(Tail(rows), IF name = "" THEN names ELSE SetAdd(names, name))

\* the second loop of importFromCSV (lines 288-307): one account per name that
\* has at least one kept row; the result is the account list and the id counter
RECURSIVE ImportGroups(_, _, _)
ImportGroups(names, rows, accts) ==
  IF names = <<>> THEN accts
  ELSE LET accountName == Head(names)
           group == SelectSeq(rows, LAMBDA r : Trim(r.AccountName) = accountName)
           type == mapCSVTypeToAccountType(Head(group).Type)
           holdings == WithIds(parseCSVRowsToHoldings(group, type), UsedIds(accts))
           n == Len(holdings)
       IN IF n > 0
            THEN ImportGroups(Tail(names), rows,
                              Append(accts, Account(id(UsedIds(accts), n + 1), accountName, type,
                                                    "", holdings)))
            ELSE ImportGroups(Tail(names), rows, accts)

importFromCSV(rows, accts) == ImportGroups(AccountNames(rows, <<>>), rows, accts)

\* importFromCSVIntoAccount (lines 313-330): the holdings pushed to the account at index ai
importFromCSVIntoAccount(rows, accts, ai) ==
  WithIds(parseCSVRowsToHoldings(rows, accts[ai].type), UsedIds(accts))

----------------------------------------------------------------------------
(* Event handlers *)

\* a handler that returned before it changed anything
Rejected(op) ==
  /\ lastOp' = (IF op = "noop" THEN lastOp ELSE op)
  /\ UNCHANGED <<accounts, priceCache, apiKey, pendingAddAccountHoldings, storedAccounts,
                 saveTimer, syncs, expandedAccountId, netWorthShown>>

\* add-account-btn / window.openAddAccountModal: openModal('modal-add-account')
OpenAddAccountModal ==
  /\ UNCHANGED <<localStorage, forecast>>
  /\ pendingAddAccountHoldings' = <<>>
  /\ lastOp' = "done"
  /\ UNCHANGED <<accounts, priceCache, apiKey, storedAccounts, saveTimer, syncs,
                 expandedAccountId, netWorthShown>>

\* csv-file-input-add-account change (lines 704-727)
CsvForAddAccount(rows, type) ==
  IF rows = <<>> THEN Rejected("noop")
  ELSE /\ Objects(accounts) + Len(parseCSVRowsToHoldings(rows, type)) + 1 <= MaxObjects
       /\ pendingAddAccountHoldings' = parseCSVRowsToHoldings(rows, type)
       /\ lastOp' = "done"
       /\ UNCHANGED <<accounts, priceCache, apiKey, storedAccounts, saveTimer, syncs,
                      expandedAccountId, netWorthShown>>

\* window.submitAddAccount (lines 1727-1754)
submitAddAccount(nameText, type, institutionText, throws) ==
  LET name == Trim(nameText)
      holdings == WithIds(pendingAddAccountHoldings, UsedIds(accounts))
      n == Len(holdings)
  IN IF name = "" \/ type = "" THEN ~throws /\ Rejected("noop")
     ELSE /\ Objects(accounts) + n + 1 <= MaxObjects
          /\ accounts' = Append(accounts, Account(id(UsedIds(accounts), n + 1), name, type,
                                                  Trim(institutionText), holdings))
          /\ pendingAddAccountHoldings' = <<>>
          /\ saveState(accounts', throws)
          /\ UNCHANGED <<priceCache, apiKey, expandedAccountId>>
          /\ render
          /\ IF (\E i \in DOMAIN holdings : Truthy(holdings[i].ticker)) /\ apiKey # ""
               THEN refreshAllPrices(accounts', apiKey)
               ELSE UNCHANGED syncs
          /\ lastOp' = "done"

\* variant: the edited account is built anew, without its holdings
submitEditAccount_BuiltAnew(accountId, nameText, type, institutionText, throws) ==
  LET name == Trim(nameText)
      ai == FindAccount(accounts, accountId)
  IN IF name = "" \/ type = "" \/ ai = 0 THEN ~throws /\ Rejected("noop")
     ELSE /\ accounts' = [accounts EXCEPT ![ai] =
                            Account(accountId, name, type, Trim(institutionText), <<>>)]
          /\ saveState(accounts', throws)
          /\ UNCHANGED <<priceCache, apiKey, pendingAddAccountHoldings, syncs,
                         expandedAccountId>>
          /\ render
          /\ lastOp' = "done"

\* window.submitEditAccount (lines 1756-1770)
submitEditAccount(accountId, nameText, type, institutionText, throws) ==
  LET name == Trim(nameText)
      ai == FindAccount(accounts, accountId)
  IN IF name = "" \/ type = "" \/ ai = 0 THEN ~throws /\ Rejected("noop")
     ELSE /\ accounts' = [accounts EXCEPT ![ai].name = name, ![ai].type = type,
                                          ![ai].institution = Trim(institutionText)]
          /\ saveState(accounts', throws)
          /\ UNCHANGED <<priceCache, apiKey, pendingAddAccountHoldings, syncs,
                         expandedAccountId>>
          /\ render
          /\ lastOp' = "done"

\* variant: the account is deleted without the answer to confirm()
DeleteAccount_Unconfirmed(accountId, confirmed, throws) ==
  IF accountId = 0 THEN ~throws /\ ~confirmed /\ Rejected("noop")
  ELSE /\ accounts' = SelectSeq(accounts, LAMBDA a : a.id # accountId)
       /\ saveState(accounts', throws)
       /\ UNCHANGED <<priceCache, apiKey, pendingAddAccountHoldings, syncs,
                      expandedAccountId>>
       /\ render
       /\ lastOp' = "done"

\* delete-account-btn click (lines 769-777)
DeleteAccount(accountId, confirmed, throws) ==
  IF accountId = 0 THEN ~throws /\ ~confirmed /\ Rejected("noop")
  ELSE IF ~confirmed THEN ~throws /\ Rejected("noop")
  ELSE /\ accounts' = SelectSeq(accounts, LAMBDA a : a.id # accountId)
       /\ saveState(accounts', throws)
       /\ UNCHANGED <<priceCache, apiKey, pendingAddAccountHoldings, syncs,
                      expandedAccountId>>
       /\ render
       /\ lastOp' = "done"

\* variant: a quantity of zero passes the check of the form
AddHolding_ZeroQuantityPasses(accountId, tickerText, quantityText, purchasePriceText, balanceText, throws) ==
  LET ai == FindAccount(accounts, accountId)
      ticker == Trim(tickerText)
      quantity == parseFloatOr0(quantityText)
      purchasePriceRaw == Trim(purchasePriceText)
      purchasePrice == IF purchasePriceRaw # "" THEN parseFloat(purchasePriceRaw) ELSE Undef
      balance == parseFloatOr0(balanceText)
  IN IF ai = 0 THEN ~throws /\ Rejected("noop")
     ELSE IF isSecurityType(accounts[ai].type) /\ (ticker = "" \/ quantity < 0)
       THEN ~throws /\ Rejected("rejected")
     ELSE /\ Objects(accounts) + 1 <= MaxObjects
          /\ accounts' = [accounts EXCEPT ![ai].holdings =
                 Append(@, IF isSecurityType(accounts[ai].type)
                             THEN SecurityHolding(id(UsedIds(accounts), 1), ticker, Num(quantity),
                                                  purchasePrice)
                             ELSE BalanceHolding(id(UsedIds(accounts), 1), Num(balance)))]
          /\ saveState(accounts', throws)
          /\ UNCHANGED <<priceCache, apiKey, pendingAddAccountHoldings, syncs, expandedAccountId>>
          /\ render
          /\ lastOp' = "done"

\* form-add-holding submit (lines 780-800)
AddHolding(accountId, tickerText, quantityText, purchasePriceText, balanceText, throws) ==
  LET ai == FindAccount(accounts, accountId)
      ticker == Trim(tickerText)
      quantity == parseFloatOr0(quantityText)
      purchasePriceRaw == Trim(purchasePriceText)
      purchasePrice == IF purchasePriceRaw # "" THEN parseFloat(purchasePriceRaw) ELSE Undef
      balance == parseFloatOr0(balanceText)
  IN IF ai = 0 THEN ~throws /\ Rejected("noop")
     ELSE IF isSecurityType(accounts[ai].type) /\ (ticker = "" \/ quantity <= 0)
       THEN ~throws /\ Rejected("rejected")
     ELSE /\ Objects(accounts) + 1 <= MaxObjects
          /\ accounts' = [accounts EXCEPT ![ai].holdings =
                 Append(@, IF isSecurityType(accounts[ai].type)
                             THEN SecurityHolding(id(UsedIds(accounts), 1), ticker, Num(quantity),
                                                  purchasePrice)
                             ELSE BalanceHolding(id(UsedIds(accounts), 1), Num(balance)))]
          /\ saveState(accounts', throws)
          /\ UNCHANGED <<priceCache, apiKey, pendingAddAccountHoldings, syncs, expandedAccountId>>
          /\ render
          /\ lastOp' = "done"

\* form-edit-holding submit (lines 803-834)
EditHolding(accountId, holdingId, tickerText, quantityText, purchasePriceText, currentPriceText, balanceText, throws) ==
  LET ai == FindAccount(accounts, accountId)
      hi == IF ai = 0 THEN 0 ELSE FindHolding(accounts[ai].holdings, holdingId)
      ticker == Trim(tickerText)
      quantity == parseFloatOr0(quantityText)
      purchasePriceRaw == Trim(purchasePriceText)
      purchasePrice == IF purchasePriceRaw # "" THEN parseFloat(purchasePriceRaw) ELSE Undef
      currentPriceRaw == Trim(currentPriceText)
      override == parseFloat(currentPriceRaw)
      priceOverride == IF currentPriceRaw # "" /\ ~IsNaN(override) /\ override.v >= 0
                         THEN override ELSE Undef
      balance == parseFloatOr0(balanceText)
  IN IF ai = 0 \/ hi = 0 THEN ~throws /\ Rejected("noop")
     ELSE IF isSecurityType(accounts[ai].type) /\ (ticker = "" \/ quantity <= 0)
       THEN ~throws /\ Rejected("rejected")
     ELSE /\ accounts' = [accounts EXCEPT ![ai].holdings[hi] =
                 IF isSecurityType(accounts[ai].type)
                   THEN [@ EXCEPT !.ticker = ticker, !.quantity = Num(quantity),
                                  !.purchasePrice = purchasePrice, !.priceOverride = priceOverride]
                   ELSE [@ EXCEPT !.balance = Num(balance)]]
          /\ saveState(accounts', throws)
          /\ UNCHANGED <<priceCache, apiKey, pendingAddAccountHoldings, expandedAccountId>>
          /\ render
          /\ IF Truthy(accounts'[ai].holdings[hi].ticker) /\ apiKey # ""
               THEN refreshAllPrices(accounts', apiKey)
               ELSE UNCHANGED syncs
          /\ lastOp' = "done"

\* variant: the delete leaves the write to the timer that render starts
DeleteHolding_WriteDeferred(accountId, holdingId, confirmed, throws) ==
  LET ai == FindAccount(accounts, accountId) IN
  IF ai = 0 \/ holdingId = 0 THEN ~throws /\ ~confirmed /\ Rejected("noop")
  ELSE IF ~confirmed THEN ~throws /\ Rejected("noop")
  ELSE /\ accounts' = [accounts EXCEPT ![ai].holdings = SelectSeq(@, LAMBDA h : h.id # holdingId)]
       /\ UNCHANGED <<priceCache, apiKey, pendingAddAccountHoldings, syncs,
                      expandedAccountId, storedAccounts>>
       /\ render
       /\ lastOp' = "done"

\* delete-holding-btn click (lines 835-844)
DeleteHolding(accountId, holdingId, confirmed, throws) ==
  LET ai == FindAccount(accounts, accountId) IN
  IF ai = 0 \/ holdingId = 0 THEN ~throws /\ ~confirmed /\ Rejected("noop")
  ELSE IF ~confirmed THEN ~throws /\ Rejected("noop")
  ELSE /\ accounts' = [accounts EXCEPT ![ai].holdings = SelectSeq(@, LAMBDA h : h.id # holdingId)]
       /\ saveState(accounts', throws)
       /\ UNCHANGED <<priceCache, apiKey, pendingAddAccountHoldings, syncs,
                      expandedAccountId>>
       /\ render
       /\ lastOp' = "done"

\* csv-file-input change (lines 730-756): into the account of the Add Holding
\* modal, or grouped by Account Name when that field is empty (accountId = 0)
CsvImport(rows, accountId, throws) ==
  LET ai == FindAccount(accounts, accountId) IN
  IF rows = <<>> THEN ~throws /\ Rejected("noop")
  ELSE IF accountId # 0
    THEN LET added == IF ai = 0 THEN <<>> ELSE importFromCSVIntoAccount(rows, accounts, ai)
         IN IF added = <<>> THEN ~throws /\ Rejected("noop")
            ELSE /\ Objects(accounts) + Len(added) <= MaxObjects
                 /\ accounts' = [accounts EXCEPT ![ai].holdings = @ \o added]
                 /\ saveState(accounts', throws)
                 /\ UNCHANGED <<priceCache, apiKey, pendingAddAccountHoldings, expandedAccountId>>
                 /\ render
                 /\ IF apiKey # "" THEN refreshAllPrices(accounts', apiKey) ELSE UNCHANGED syncs
                 /\ lastOp' = "done"
    ELSE LET result == importFromCSV(rows, accounts)
         IN /\ Objects(result) <= MaxObjects
            /\ accounts' = result
            /\ saveState(accounts', throws)
            /\ UNCHANGED <<priceCache, apiKey, pendingAddAccountHoldings, expandedAccountId>>
            /\ render
            /\ IF Len(accounts') > Len(accounts) /\ apiKey # ""
                 THEN refreshAllPrices(accounts', apiKey)
                 ELSE UNCHANGED syncs
            /\ lastOp' = (IF Len(accounts') > Len(accounts) THEN "done" ELSE lastOp)

\* account-row click (lines 459-465)
AccountRowClick(accountId) ==
  /\ UNCHANGED <<localStorage, forecast>>
  /\ \E i \in DOMAIN accounts : accounts[i].id = accountId
  /\ expandedAccountId' = (IF expandedAccountId = accountId THEN 0 ELSE accountId)
  /\ UNCHANGED <<accounts, priceCache, apiKey, pendingAddAccountHoldings, storedAccounts,
                 syncs>>
  /\ render
  /\ lastOp' = "rowClick"

\* variant: the click starts refreshAllPrices whatever the key
SyncClick_NoPrompt ==
  /\ UNCHANGED <<localStorage, forecast>>
  /\ refreshAllPrices(accounts, apiKey)
  /\ UNCHANGED <<accounts, priceCache, apiKey, pendingAddAccountHoldings, storedAccounts,
                 expandedAccountId>>
  /\ IF NewRun(accounts, apiKey).pc = "done" THEN render
     ELSE UNCHANGED <<saveTimer, netWorthShown>>
  /\ lastOp' = "done"

\* sync-prices-btn click (lines 846-854)
SyncClick ==
  /\ UNCHANGED <<localStorage, forecast>>
  /\ LET hasRetirement == \E i \in DOMAIN accounts :
             /\ accounts[i].type = "Retirement"
             /\ \E j \in DOMAIN accounts[i].holdings : Truthy(accounts[i].holdings[j].ticker)
     IN IF hasRetirement /\ apiKey = "" THEN Rejected("noop")
        ELSE /\ refreshAllPrices(accounts, apiKey)
             /\ UNCHANGED <<accounts, priceCache, apiKey, pendingAddAccountHoldings, storedAccounts,
                            expandedAccountId>>
             /\ IF NewRun(accounts, apiKey).pc = "done" THEN render
                ELSE UNCHANGED <<saveTimer, netWorthShown>>
             /\ lastOp' = "done"

\* save-api-key click (lines 856-864)
SaveApiKey(keyText) ==
  LET key == Trim(keyText) IN
  IF key = "" THEN Rejected("noop")
  ELSE /\ apiKey' = key
       /\ refreshAllPrices(accounts, key)
       /\ UNCHANGED <<accounts, priceCache, pendingAddAccountHoldings, storedAccounts,
                      expandedAccountId>>
       /\ IF NewRun(accounts, key).pc = "done" THEN render
          ELSE UNCHANGED <<saveTimer, netWorthShown>>
       /\ lastOp' = "done"

\* the timeout of scheduleSave fires (lines 1709-1712): saveState()
SaveTimerFires(t, throws) ==
  /\ t \in saveTimer.pending
  /\ saveTimer' = [saveTimer EXCEPT !.pending = @ \ {t}]
  /\ saveState(accounts, throws)
  /\ lastOp' = "deferredSave"
  /\ UNCHANGED <<accounts, priceCache, apiKey, pendingAddAccountHoldings, syncs,
                 expandedAccountId, netWorthShown>>

----------------------------------------------------------------------------
(* Specifications *)

\* the page after loadState() and init(): nothing stored yet, no key, one render
Init ==
  /\ storedAccounts = <<>>
  /\ accounts = storedAccounts
  /\ priceCache = <<>>
  /\ apiKey = ""
  /\ pendingAddAccountHoldings = <<>>
  /\ saveTimer = scheduleSave(NoTimer)
  /\ syncs = <<>>
  /\ expandedAccountId = 0
  /\ netWorthShown = Num(0)
  /\ localStorage = NothingStored
  /\ forecast = NoForecast
  /\ lastOp = "init"

\* the ids a hidden form field can hold: none (0), an id in use, an id no longer in use
StaleId == MaxObjects + 1
AccountIdInputs == {accounts[i].id : i \in DOMAIN accounts} \cup {0, StaleId}
\* the two hidden fields of the edit-holding modal: an account and one of its
\* holdings, as openEditHoldingModal sets them, or what is left of one that was deleted
HoldingRefInputs ==
  UNION {{<<accounts[i].id, accounts[i].holdings[j].id>> : j \in DOMAIN accounts[i].holdings}
           \cup {<<accounts[i].id, 0>>, <<accounts[i].id, StaleId>>} : i \in DOMAIN accounts}
    \cup {<<StaleId, StaleId>>}
\* the modal shows the security fields or the balance field
ShowsSecurityFields(accountId) ==
  LET ai == FindAccount(accounts, accountId) IN ai # 0 /\ isSecurityType(accounts[ai].type)

\* pendingAddAccountHoldings is filled while the Add Account modal is open; the
\* modal covers the page, so the user submits it, or closes and reopens it,
\* before another form is used
OtherFormsUsable == pendingAddAccountHoldings = <<>>

AddAccountStep ==
  /\ UNCHANGED <<localStorage, forecast>>
  /\ \E name \in {"", "IRA"}, type \in TypeInputs, throws \in StorageThrows :
       submitAddAccount(name, type, "", throws)

EditAccountStep ==
  /\ UNCHANGED <<localStorage, forecast>>
  /\ OtherFormsUsable
  /\ \E accountId \in AccountIdInputs, name \in {"", "IRA"}, type \in TypeInputs,
     inst \in {""}, throws \in StorageThrows :
    submitEditAccount(accountId, name, type, inst, throws)

DeleteAccountStep ==
  /\ UNCHANGED <<localStorage, forecast>>
  /\ OtherFormsUsable
  /\ \E accountId \in AccountIdInputs, confirmed \in BOOLEAN, throws \in StorageThrows :
    DeleteAccount(accountId, confirmed, throws)

AddHoldingStep ==
  /\ UNCHANGED <<localStorage, forecast>>
  /\ OtherFormsUsable
  /\ \E accountId \in AccountIdInputs, throws \in StorageThrows :
    IF ShowsSecurityFields(accountId)
      THEN \E f \in HoldingForms :
             AddHolding(accountId, f.ticker, f.quantity, f.purchasePrice, "", throws)
      ELSE \E balance \in {"", "5"} : AddHolding(accountId, "", "", "", balance, throws)

EditHoldingStep ==
  /\ UNCHANGED <<localStorage, forecast>>
  /\ OtherFormsUsable
  /\ \E ref \in HoldingRefInputs, throws \in StorageThrows :
    IF ShowsSecurityFields(ref[1])
      THEN \E f \in HoldingForms :
             EditHolding(ref[1], ref[2], f.ticker, f.quantity, f.purchasePrice, f.currentPrice, "",
                         throws)
      ELSE \E balance \in {"", "5"} : EditHolding(ref[1], ref[2], "", "", "", "", balance, throws)

DeleteHoldingStep ==
  /\ UNCHANGED <<localStorage, forecast>>
  /\ OtherFormsUsable
  /\ \E ref \in HoldingRefInputs, confirmed \in BOOLEAN, throws \in StorageThrows :
    DeleteHolding(ref[1], ref[2], confirmed, throws)

CsvImportStep ==
  /\ UNCHANGED <<localStorage, forecast>>
  /\ OtherFormsUsable
  /\ \E rows \in CsvFiles, accountId \in AccountIdInputs, throws \in StorageThrows :
    CsvImport(rows, accountId, throws)

SaveTimerStep ==
  /\ UNCHANGED <<localStorage, forecast>>
  /\ \E t \in saveTimer.pending, throws \in StorageThrows : SaveTimerFires(t, throws)

CsvForAddAccountStep ==
  /\ UNCHANGED <<localStorage, forecast>>
  /\ \E rows \in CsvFiles, type \in TypeInputs \ {""} : CsvForAddAccount(rows, type)

\* the account and holding forms, the CSV imports and the deferred save; the
\* user never stores an API key, so no handler starts a price refresh
Next ==
  \/ AddAccountStep
  \/ EditAccountStep
  \/ DeleteAccountStep
  \/ AddHoldingStep
  \/ EditHoldingStep
  \/ DeleteHoldingStep
  \/ CsvImportStep
  \/ SaveTimerStep
  \/ OpenAddAccountModal
  \/ CsvForAddAccountStep

Spec == Init /\ [][Next]_vars

----------------------------------------------------------------------------
(* Valuation: the account list and the price cache are drawn from bounded    *)
(* sets of states the page can be in; the user expands and collapses rows,   *)
(* and every render evaluates the aggregate                                  *)

MaxValAccounts == 2
MaxValHoldings == 2

\* holdings as the forms, the imports and earlier versions of the page leave
\* them: a legacy costBasis, a price override, a purchase price, a balance.  A
\* Retirement account holds any of them (a balance holding after a change of
\* the account's type), a Cash or Debt account holds balances.  Account i
\* gets id i, its j-th holding the id MaxValAccounts + (i-1) * MaxValHoldings + j
InitValuation ==
  /\ LET ValSecurityHoldings ==
           { [SecurityHolding(0, "aapl", Num(2), Undef) EXCEPT !.costBasis = Num(4)],
             [SecurityHolding(0, "AAPL", Num(1), Num(3)) EXCEPT !.priceOverride = Num(5)],
             SecurityHolding(0, "BTC", Num(2), Num(3)),
             BalanceHolding(0, Num(5)) }
         ValAccountShapes ==
           [type : {"Retirement"},
            holdings : UNION {[1..n -> ValSecurityHoldings] : n \in 0..MaxValHoldings}]
             \cup [type : {"Cash", "Debt"},
                   holdings : UNION {[1..n -> {BalanceHolding(0, Num(5))}] : n \in 0..MaxValHoldings}]
     IN \E shapes \in UNION {[1..n -> ValAccountShapes] : n \in 0..MaxValAccounts} :
          accounts =
            [i \in DOMAIN shapes |->
               Account(i, "IRA", shapes[i].type, "",
                       [j \in DOMAIN shapes[i].holdings |->
                          [shapes[i].holdings[j]
                             EXCEPT !.id = MaxValAccounts + (i - 1) * MaxValHoldings + j]])]
  /\ storedAccounts = ToJSON(accounts)
  /\ priceCache \in {<<>>, "AAPL" :> 7}
  /\ apiKey = ""
  /\ pendingAddAccountHoldings = <<>>
  /\ saveTimer = NoTimer
  /\ syncs = <<>>
  /\ expandedAccountId = 0
  /\ netWorthShown = NetWorthOf(accounts, priceCache)
  /\ localStorage = NothingStored
  /\ forecast = NoForecast
  /\ lastOp = "init"

NextValuation == \E accountId \in AccountIdInputs : AccountRowClick(accountId)

SpecValuation == InitValuation /\ [][NextValuation]_vars

----------------------------------------------------------------------------
(* The deferred save on a clock: accounts and holdings are added and rows   *)
(* are clicked, each with its render, while the clock ticks; a timeout fires *)
(* when its delay has elapsed, and the clock does not pass a timeout that is *)
(* due                                                                       *)

ClockTick ==
  /\ saveTimer.pending # {}
  /\ \A t \in saveTimer.pending : t.left > 0
  /\ saveTimer' = [saveTimer EXCEPT !.pending = {[t EXCEPT !.left = @ - 1] : t \in @}]
  /\ UNCHANGED <<accounts, priceCache, apiKey, pendingAddAccountHoldings, storedAccounts,
                 syncs, expandedAccountId, netWorthShown, localStorage, forecast, lastOp>>

TimeoutStep ==
  /\ UNCHANGED <<localStorage, forecast>>
  /\ \E t \in saveTimer.pending, throws \in StorageThrows :
       t.left = 0 /\ SaveTimerFires(t, throws)

NextSave ==
  \/ AddAccountStep
  \/ AddHoldingStep
  \/ NextValuation
  \/ ClockTick
  \/ TimeoutStep

SpecSave == Init /\ [][NextSave]_vars

\* the clock goes on and a timeout that is due fires
SpecSaveFair == SpecSave /\ WF_vars(ClockTick) /\ WF_vars(TimeoutStep)

----------------------------------------------------------------------------
(* Profit and loss of one holding: the account detail of the expanded account
   (lines 513-514) shows it for every holding *)

MaxPlHoldings == 1

PlCaches == {<<>>, "AAPL" :> 8}

\* security holdings as the forms, the imports and earlier versions of the
\* page leave them: with a purchase price, with a legacy costBasis, with both,
\* with a price override, with quantity 0, and with the quantity Infinity that
\* parseFloat makes of the Quantity cell "Infinity" of an imported CSV file;
\* one account of any type holds them (a change of the type keeps the holdings)
InitProfitLoss ==
  /\ LET PlHoldings ==
           { [SecurityHolding(0, "AAPL", quantity, purchasePrice)
                EXCEPT !.costBasis = costBasis, !.priceOverride = priceOverride] :
               quantity \in {Num(0), Num(1), Num(2), Infinity},
               purchasePrice \in {Undef, Num(0), Num(1), Num(2), Num(4)},
               costBasis \in {Undef, Num(2), Num(4)},
               priceOverride \in {Undef, Num(4)} }
             \cup {BalanceHolding(0, Num(5)), BalanceHolding(0, Undef), BalanceHolding(0, NaN)}
     IN \E type \in {"Cash", "Retirement", "Crypto", "Debt"},
           holdings \in UNION {[1..n -> PlHoldings] : n \in 1..MaxPlHoldings} :
          accounts = <<Account(1, "IRA", type, "",
                               [j \in DOMAIN holdings |-> [holdings[j] EXCEPT !.id = 1 + j]])>>
  /\ storedAccounts = ToJSON(accounts)
  /\ priceCache \in PlCaches
  /\ apiKey = ""
  /\ pendingAddAccountHoldings = <<>>
  /\ saveTimer = NoTimer
  /\ syncs = <<>>
  /\ expandedAccountId = 0
  /\ netWorthShown = NetWorthOf(accounts, priceCache)
  /\ localStorage = NothingStored
  /\ forecast = NoForecast
  /\ lastOp = "init"

SpecProfitLoss == InitProfitLoss /\ [][NextValuation]_vars

----------------------------------------------------------------------------
(* The forecast functions on arguments of every kind: a projection (line
   1062) and a payoff (line 1000) are computed from the arguments drawn at the
   start *)

MaxAmount == 3
MaxMonths == 2

PmtInputs == {Num(a) : a \in -1..MaxAmount}

InitForecast ==
  /\ accounts = <<>>
  /\ storedAccounts = <<>>
  /\ priceCache = <<>>
  /\ apiKey = ""
  /\ pendingAddAccountHoldings = <<>>
  /\ saveTimer = NoTimer
  /\ syncs = <<>>
  /\ expandedAccountId = 0
  /\ netWorthShown = Num(0)
  /\ localStorage = NothingStored
  /\ forecast \in
       [pv : PmtInputs \cup {Undef},
        pmt : PmtInputs,
        annualPercent : {Num(a) : a \in DOMAIN MonthlyRates} \cup {Undef},
        monthsContributing : {Num(m) : m \in -1..(MaxMonths + 1)}
                               \cup {Half(m) : m \in -1..MaxMonths} \cup {Infinity, NaN},
        totalMonths : {Num(n) : n \in -1..MaxMonths} \cup {Half(MaxMonths - 1)},
        futureValue : {Undef},
        monthsToPayoff : {Undef}]
  /\ lastOp = "init"

ProjectBalance ==
  /\ forecast' = [forecast EXCEPT !.futureValue =
                    futureValueWithContributions(forecast.pv, forecast.pmt, forecast.annualPercent,
                                                 forecast.monthsContributing, forecast.totalMonths)]
  /\ lastOp' = "done"
  /\ UNCHANGED <<accounts, priceCache, apiKey, pendingAddAccountHoldings, storedAccounts,
                 saveTimer, syncs, expandedAccountId, netWorthShown, localStorage>>

PayoffMonths ==
  /\ forecast' = [forecast EXCEPT !.monthsToPayoff =
                    monthsToPayoffLoan(forecast.pv, forecast.pmt, forecast.annualPercent)]
  /\ lastOp' = "done"
  /\ UNCHANGED <<accounts, priceCache, apiKey, pendingAddAccountHoldings, storedAccounts,
                 saveTimer, syncs, expandedAccountId, netWorthShown, localStorage>>

NextForecast ==
  \/ ProjectBalance
  \/ PayoffMonths

SpecForecast == InitForecast /\ [][NextForecast]_vars

----------------------------------------------------------------------------
(* Start-up: the script ends with loadState(); init(); (lines 1772-1773), on
   items of localStorage of every form *)

MaxStoredAccounts == 1

\* the state literal (lines 21-26), before loadState has run; a stored account
\* list holds n Cash accounts, account i with id i and a holding with id
\* MaxStoredAccounts + i
InitLoad ==
  /\ localStorage \in
       [accounts :
          {Absent, NotJson, Item("null", <<>>), Item("object", <<NoFields>>)}
            \cup {Item("array",
                       [i \in 1..n |->
                          Account(i, "Bank", "Cash", "",
                                  <<BalanceHolding(MaxStoredAccounts + i, Num(5))>>)]) :
                    n \in 0..MaxStoredAccounts},
        history :
          {Absent, NotJson, Item("number", <<7>>), Item("object", <<NoFields>>),
           Item("array", <<>>),
           Item("array", <<[date |-> "2026-01-01", totalNetWorth |-> Num(5)]>>)},
        settings :
          {Absent, NotJson, Item("null", <<>>), Item("number", <<7>>),
           Item("object", <<NoFields>>),
           Item("object", <<[horizonYears |-> Num(10), annualExpenses |-> Num(5),
                            annualExpenseGrowthPercent |-> Num(2),
                            accounts |-> Item("object", <<>>)]>>)}]
  /\ accounts = <<>>
  /\ storedAccounts = loadState(localStorage.accounts, <<>>)
  /\ priceCache = <<>>
  /\ apiKey = ""
  /\ pendingAddAccountHoldings = <<>>
  /\ saveTimer = NoTimer
  /\ syncs = <<>>
  /\ expandedAccountId = 0
  /\ netWorthShown = Num(0)
  /\ forecast = NoForecast
  /\ lastOp = "start"

\* loadState(); init();  where init starts with render()
PageLoad ==
  /\ lastOp = "start"
  /\ accounts' = loadState(localStorage.accounts, accounts)
  /\ UNCHANGED <<priceCache, apiKey, pendingAddAccountHoldings, storedAccounts, syncs,
                 expandedAccountId, localStorage, forecast>>
  /\ render
  /\ lastOp' = "loaded"

NextLoad ==
  \/ PageLoad
  \/ NextValuation

SpecLoad == InitLoad /\ [][NextLoad]_vars

----------------------------------------------------------------------------
(* The History tab: snapshots of one account list are recorded, edited in the
   modal opened on one of them, and deleted *)

MaxSnapshots == 2

InitHistory ==
  /\ accounts \in {<<>>, <<Account(1, "IRA", "Retirement", "",
                                      <<SecurityHolding(2, "AAPL", Infinity, Num(1))>>)>>}
                     \cup {<<Account(1, "Bank", type, "", <<BalanceHolding(2, Num(5))>>)>> :
                            type \in {"Cash", "Debt"}}
  /\ storedAccounts = ToJSON(accounts)
  /\ priceCache = <<>>
  /\ apiKey = ""
  /\ pendingAddAccountHoldings = <<>>
  /\ saveTimer = NoTimer
  /\ syncs = <<>>
  /\ expandedAccountId = 0
  /\ netWorthShown = NetWorthOf(accounts, priceCache)
  /\ localStorage = NothingStored
  /\ forecast = NoForecast
  /\ lastOp = "init"

\* record-snapshot-btn click (lines 872-875)
RecordSnapshotStep ==
  /\ Len(getNetWorthHistory(localStorage.history)) < MaxSnapshots
  /\ \E today \in DOMAIN DateRank \ {""} : recordSnapshot(today)
  /\ lastOp' = "recorded"
  /\ UNCHANGED <<accounts, priceCache, apiKey, pendingAddAccountHoldings, storedAccounts,
                 saveTimer, syncs, expandedAccountId, netWorthShown, forecast>>

\* form-edit-snapshot submit (lines 876-879), in the modal that
\* openEditSnapshotModal opened on an existing snapshot, or with an index
\* field that holds no number
EditSnapshotStep ==
  /\ \E index \in -1..(Len(getNetWorthHistory(localStorage.history)) - 1),
        date \in DOMAIN DateRank, totalText \in {"", "3"}, balanceText \in {"", "3"} :
       saveEditedSnapshot(index, date, totalText, balanceText)
  /\ lastOp' = "edited"
  /\ UNCHANGED <<accounts, priceCache, apiKey, pendingAddAccountHoldings, storedAccounts,
                 saveTimer, syncs, expandedAccountId, netWorthShown, forecast>>

\* a Delete button of the snapshot list, or delete-snapshot-btn (lines 880-884)
DeleteSnapshotStep ==
  /\ \E index \in -1..Len(getNetWorthHistory(localStorage.history)) : deleteSnapshot(index)
  /\ lastOp' = "deleted"
  /\ UNCHANGED <<accounts, priceCache, apiKey, pendingAddAccountHoldings, storedAccounts,
                 saveTimer, syncs, expandedAccountId, netWorthShown, forecast>>

NextHistory ==
  \/ RecordSnapshotStep
  \/ EditSnapshotStep
  \/ DeleteSnapshotStep

SpecHistory == InitHistory /\ [][NextHistory]_vars

----------------------------------------------------------------------------
(* The forecast page: projected balances of the accounts under the stored
   forecast settings *)

\* the accounts of the forecast page, and the years shown
MaxForecastAccounts == 2
MaxYears == 2

\* the ledger holds Cash and Debt accounts with one balance each, some of them
\* overdrawn; the horizon field has stored a horizon of a few years
InitProjection ==
  /\ \E n \in 0..MaxForecastAccounts :
       \E type \in [1..n -> {"Cash", "Debt"}], balance \in [1..n -> {-1, 3}] :
         accounts = [i \in 1..n |->
                       Account(i, "Bank", type[i], "",
                               <<BalanceHolding(MaxForecastAccounts + i, Num(balance[i]))>>)]
  /\ storedAccounts = ToJSON(accounts)
  /\ priceCache = <<>>
  /\ apiKey = ""
  /\ pendingAddAccountHoldings = <<>>
  /\ saveTimer = NoTimer
  /\ syncs = <<>>
  /\ expandedAccountId = 0
  /\ netWorthShown = NetWorthOf(accounts, priceCache)
  /\ \E y \in 1..MaxYears :
       localStorage = [NothingStored EXCEPT !.settings =
                         Item("object", <<[DefaultSettings EXCEPT !.horizonYears = Num(y)]>>)]
  /\ forecast = NoForecast
  /\ lastOp = "init"

\* input / change on a field of an account's forecast card (lines 1505-1536):
\* the number fields store parseFloat of the text, or undefined when it is
\* not a number; the stop date, which the cards of Debt accounts do not have,
\* stores the trimmed text or null; the settings are written back. The label
\* the handler then rewrites shows getProjectedAccountBalance at the horizon
\* in the state after the step
ForecastInputStep ==
  \E i \in DOMAIN accounts,
     key \in {"monthlyContribution", "annualReturnPercent", "contributionStopDate"},
     text \in {"", "0", "1", "2020-01-01"}, throws \in StorageThrows :
    LET accountId == accounts[i].id
        settings == getForecastSettings(localStorage.settings)
        num == parseFloat(text)
        acc == forecastAccount(accountId)
        changed ==
          CASE key = "monthlyContribution" ->
                 [acc EXCEPT !.monthlyContribution = IF IsNaN(num) THEN Undef ELSE num]
            [] key = "annualReturnPercent" ->
                 [acc EXCEPT !.annualReturnPercent = IF IsNaN(num) THEN Undef ELSE num]
            [] key = "contributionStopDate" ->
                 [acc EXCEPT !.contributionStopDate = Trim(text)]
        written ==
          Item("object",
               <<[horizonYears |-> JsonValue(settings.horizonYears),
                  annualExpenses |-> JsonValue(settings.annualExpenses),
                  annualExpenseGrowthPercent |-> JsonValue(settings.annualExpenseGrowthPercent),
                  accounts |-> Item("object", (accountId :> changed) @@ settings.accounts.v)]>>)
    IN /\ key = "monthlyContribution" => text \in {"", "1"}
       /\ key = "annualReturnPercent" => text \in {"", "0"}
       /\ key = "contributionStopDate" => accounts[i].type # "Debt" /\ text \in {"", "2020-01-01"}
       /\ localStorage' = [localStorage EXCEPT !.settings = IF throws THEN @ ELSE written]
       /\ UNCHANGED <<accounts, priceCache, apiKey, pendingAddAccountHoldings, storedAccounts,
                      saveTimer, syncs, expandedAccountId, netWorthShown, forecast>>
       /\ lastOp' = "forecast"

NextProjection == ForecastInputStep

SpecProjection == InitProjection /\ [][NextProjection]_vars

----------------------------------------------------------------------------
(* Price synchronisation: a Retirement or Crypto account with up to          *)
(* MaxTickers holdings, a price cached earlier for BTC, with or without a    *)
(* stored API key; the user clicks Sync, saves a key and edits holdings      *)
(* while the fetches settle                                                  *)

MaxTickers == 2

\* the account has id 1, its j-th holding the id 1 + j
InitSync ==
  /\ LET SyncHoldings == {SecurityHolding(0, "BTC", Num(2), Num(3)),
                          SecurityHolding(0, "aapl", Num(2), Undef)}
     IN \E type \in {"Retirement", "Crypto"},
           holdings \in UNION {[1..n -> SyncHoldings] : n \in 0..MaxTickers} :
          accounts = <<Account(1, "IRA", type, "",
                               [j \in DOMAIN holdings |-> [holdings[j] EXCEPT !.id = 1 + j]])>>
  /\ storedAccounts = ToJSON(accounts)
  /\ priceCache = "BTC" :> 5
  /\ apiKey \in {"", "k1"}
  /\ pendingAddAccountHoldings = <<>>
  /\ saveTimer = NoTimer
  /\ syncs = <<>>
  /\ expandedAccountId = 0
  /\ netWorthShown = NetWorthOf(accounts, priceCache)
  /\ localStorage = NothingStored
  /\ forecast = NoForecast
  /\ lastOp = "init"

SaveApiKeyStep ==
  /\ UNCHANGED <<localStorage, forecast>>
  /\ \E keyText \in {"", "k1"} : SaveApiKey(keyText)

SyncEditHoldingStep ==
  /\ UNCHANGED <<localStorage, forecast>>
  /\ \E ref \in HoldingRefInputs, f \in {HoldingForm(" aapl", "2", "", "")} :
       EditHolding(ref[1], ref[2], f.ticker, f.quantity, f.purchasePrice, f.currentPrice, "", FALSE)

CoinGeckoStep ==
  /\ UNCHANGED <<localStorage, forecast>>
  /\ \E i \in DOMAIN syncs, resp \in Responses : CoinGeckoResponse(i, resp)

FinnhubStep ==
  /\ UNCHANGED <<localStorage, forecast>>
  /\ \E i \in DOMAIN syncs, resp \in Responses : FinnhubResponse(i, resp)

DelayStep ==
  /\ UNCHANGED <<localStorage, forecast>>
  /\ \E i \in DOMAIN syncs : DelayElapsed(i)

NextSync ==
  \/ SyncClick
  \/ SaveApiKeyStep
  \/ SyncEditHoldingStep
  \/ CoinGeckoStep
  \/ FinnhubStep
  \/ DelayStep

SpecSync == InitSync /\ [][NextSync]_vars

\* the clicks on Sync and on the prompt's Save, with the edit-account form,
\* which changes the account's type
NextPrompt ==
  \/ SyncClick
  \/ SaveApiKeyStep
  \/ EditAccountStep
  \/ CoinGeckoStep
  \/ FinnhubStep
  \/ DelayStep

SpecPrompt == InitSync /\ [][NextPrompt]_vars

\* every request of every run settles and every delay of every run elapses:
\* fetch() resolves or rejects, and the timers of lines 360 and 364 fire
SpecSyncFair ==
  /\ SpecSync
  /\ \A i \in 1..MaxSyncs :
       /\ WF_vars(UNCHANGED <<localStorage, forecast>>
                    /\ \E resp \in Responses : CoinGeckoResponse(i, resp))
       /\ WF_vars(UNCHANGED <<localStorage, forecast>>
                    /\ \E resp \in Responses : FinnhubResponse(i, resp))
       /\ WF_vars(UNCHANGED <<localStorage, forecast>> /\ DelayElapsed(i))

----------------------------------------------------------------------------
(* Properties of the price synchronisation (SpecSync) *)

\* C7: when a fetch of refreshAllPrices fails (the request throws, the body
\* does not parse, the price is missing or not positive), the price cache is
\* left as it was and the run keeps every ticker it has not fetched yet; and
\* when the delay after a ticker has elapsed, the run goes on to the next one
C7_FailedFetchLeavesCache ==
  [][\A i \in DOMAIN syncs :
       /\ \A resp \in Responses :
            LET price == parseResponse(resp.body)
                failed == resp.status = "throw" \/ IsNullish(price) \/ price.v <= 0
            IN failed /\ (CoinGeckoResponse(i, resp) \/ FinnhubResponse(i, resp)) =>
                 /\ priceCache' = priceCache
                 /\ Len(syncs') = Len(syncs)
                 /\ syncs'[i].crypto = syncs[i].crypto
                 /\ syncs'[i].ret = syncs[i].ret
                 /\ syncs'[i].pc \in {"cgRetry", "cgFallback", "cgSleep", "fhSleep"}
       /\ DelayElapsed(i) =>
            LET run == syncs[i]
                crypto == IF run.pc = "cgSleep" THEN Tail(run.crypto) ELSE run.crypto
                ret == IF run.pc = "cgSleep" THEN run.ret ELSE Tail(run.ret)
            IN IF crypto # <<>>
                 THEN syncs'[i] = [crypto |-> crypto, ret |-> ret, pc |-> "cgDirect"]
               ELSE IF ret # <<>>
                 THEN /\ syncs'[i].crypto = crypto /\ syncs'[i].ret = ret
                      /\ syncs'[i].pc = (IF apiKey = "" THEN "fhSleep" ELSE "fhFetch")
               ELSE Len(syncs') = Len(syncs) - 1]_vars

\* C7 witness: the only run has left BTC behind without a new quote (the cache
\* still holds the earlier price) and is now fetching AAPL
C7_Witness ==
  /\ Len(syncs) = 1
  /\ syncs[1].crypto = <<>>
  /\ syncs[1].ret = <<"AAPL">>
  /\ syncs[1].pc = "fhFetch"
  /\ priceCache = "BTC" :> 5
  /\ \E j \in DOMAIN accounts[1].holdings : accounts[1].holdings[j].ticker = "BTC"

\* C8: at every moment at most one price fetch is in flight, also when a sync
\* is triggered again while an earlier refreshAllPrices has not finished
C8_OneFetchInFlight == Cardinality({i \in DOMAIN syncs : syncs[i].pc \in FetchPcs}) <= 1

----------------------------------------------------------------------------
(* Properties of the ledger (Spec) *)

\* C1: after any sequence of account and holding operations, every holding of
\* a Retirement or Crypto account has a non-empty ticker and a quantity > 0
C1_SecurityHoldingsValid ==
  \A i \in DOMAIN accounts :
    accounts[i].type \in {"Retirement", "Crypto"} =>
      \A j \in DOMAIN accounts[i].holdings :
        LET h == accounts[i].holdings[j]
        IN h.ticker \notin {NoTicker, ""} /\ IsNum(h.quantity) /\ h.quantity.v > 0

\* C5: every step that creates, edits or deletes an account or a holding
\* leaves in the storage the serialisation of the account list the handler
\* returns with
C5_MutationIsStored ==
  [][accounts' # accounts => storedAccounts' = ToJSON(accounts')]_vars

\* C5 witness: a handler has returned, the timer of scheduleSave has not fired
\* since, and the storage holds the list with the new holding, its NaN
\* purchase price written as null
C5_Witness ==
  /\ lastOp = "done"
  /\ saveTimer.pending # {}
  /\ storedAccounts = ToJSON(accounts)
  /\ \E i \in DOMAIN accounts : \E j \in DOMAIN accounts[i].holdings :
       /\ accounts[i].holdings[j].purchasePrice = NaN
       /\ storedAccounts[i].holdings[j].purchasePrice = Null

\* C6 as stated: a mutation is not written when it is made, the write waits for
\* the idle delay
C6_WriteOnlyAfterDelay ==
  [][accounts' # accounts => storedAccounts' = storedAccounts]_vars

\* C6 as amended: the stored list is never older than the list in memory, also
\* while the timer of scheduleSave is pending
C6_StoredNeverOlder == storedAccounts = ToJSON(accounts)

\* C6 witness: inside the idle window after a mutation (the timer is pending)
\* the storage already holds the mutated list
C6_Witness ==
  /\ saveTimer.pending # {}
  /\ lastOp = "done"
  /\ Len(accounts) > 0
  /\ \E i \in DOMAIN accounts : Len(accounts[i].holdings) > 0
  /\ Len(storedAccounts) = Len(accounts)
  /\ \A i \in DOMAIN accounts : Len(storedAccounts[i].holdings) = Len(accounts[i].holdings)

\* C9: a submission of the add-holding or the edit-holding form for a
\* Retirement or Crypto account with an empty ticker, or a quantity that is
\* missing, not a number or <= 0, changes neither the accounts nor the stored
\* list, and the handler returns at its check
C9_InvalidHoldingFormRejected ==
  [][\A i \in DOMAIN accounts :
       accounts[i].type \in {"Retirement", "Crypto"} =>
         \A f \in HoldingForms :
           LET invalid == \/ Trim(f.ticker) = ""
                          \/ ~IsNum(parseFloat(f.quantity))
                          \/ parseFloat(f.quantity).v <= 0
               added == AddHolding(accounts[i].id, f.ticker, f.quantity, f.purchasePrice, "", FALSE)
               edited == \E j \in DOMAIN accounts[i].holdings :
                           EditHolding(accounts[i].id, accounts[i].holdings[j].id, f.ticker,
                                       f.quantity, f.purchasePrice, f.currentPrice, "", FALSE)
           IN invalid /\ (added \/ edited) =>
                accounts' = accounts /\ storedAccounts' = storedAccounts /\ lastOp' = "rejected"]_vars

\* C9 witness: a form was rejected while a Retirement account with a holding
\* exists, and memory and storage still agree
C9_Witness ==
  /\ lastOp = "rejected"
  /\ \E i \in DOMAIN accounts :
       /\ accounts[i].type = "Retirement"
       /\ Len(accounts[i].holdings) > 0
       /\ \A j \in DOMAIN accounts[i].holdings : accounts[i].holdings[j].quantity = Num(2)
  /\ storedAccounts = ToJSON(accounts)

\* C10: every CSV import path adds no holding for a row whose ticker is empty
\* or whose Quantity is missing, unparseable, zero or negative, and imports the
\* other rows of the file
C10_InvalidCsvRowsSkipped ==
  [][\A rows \in CsvFiles :
       LET good(r) == /\ r.Ticker # "" \/ r.Symbol # ""
                      /\ IsNum(parseFloat(r.Quantity))
                      /\ parseFloat(r.Quantity).v > 0
           kept == SelectSeq(rows, good)
           named == SelectSeq(kept, LAMBDA r : r.AccountName # "")
           holdingsIn(accts) == Objects(accts) - Len(accts)
       IN /\ \A accountId \in AccountIdInputs :
               ShowsSecurityFields(accountId) /\ CsvImport(rows, accountId, FALSE)
                 => holdingsIn(accounts') = holdingsIn(accounts) + Len(kept)
          /\ CsvImport(rows, 0, FALSE)
               => holdingsIn(accounts') = holdingsIn(accounts) + Len(named)
          /\ CsvForAddAccount(rows, "Retirement")
               => Len(pendingAddAccountHoldings') = Len(kept)]_vars

----------------------------------------------------------------------------
(* Properties of the valuation (SpecValuation) *)

\* C2: for every holding and every price cache, getCurrentPrice is the
\* priceOverride when that is set and numeric; otherwise the price cached under
\* the uppercased ticker when there is such an entry; otherwise the derived
\* purchase price; and it is null only when there is no override, no cache
\* entry and no purchase price
C2_CurrentPriceOrder ==
  \A i \in DOMAIN accounts : \A j \in DOMAIN accounts[i].holdings :
    LET h == accounts[i].holdings[j]
        price == getCurrentPrice(h, priceCache)
        overridden == h.priceOverride.k = "num"
        cached == \E t \in DOMAIN priceCache : h.ticker # NoTicker /\ t = ToUpperCase(h.ticker)
    IN /\ overridden => price = h.priceOverride
       /\ ~overridden /\ cached => price = Num(priceCache[ToUpperCase(h.ticker)])
       /\ ~overridden /\ ~cached => price = getPurchasePrice(h)
       /\ IsNullish(price) => ~overridden /\ ~cached /\ IsNullish(getPurchasePrice(h))

\* C2 witness: after a render, one account list shows all four cases: an
\* override that beats a cached quote, a cached quote that beats the purchase
\* price, a purchase price, and no price at all
C2_Witness ==
  /\ lastOp = "rowClick"
  /\ "AAPL" \in DOMAIN priceCache
  /\ \E i \in DOMAIN accounts : \E j \in DOMAIN accounts[i].holdings :
       LET h == accounts[i].holdings[j] IN
       h.priceOverride = Num(5) /\ h.ticker = "AAPL" /\ getCurrentPrice(h, priceCache) = Num(5)
  /\ \E i \in DOMAIN accounts : \E j \in DOMAIN accounts[i].holdings :
       LET h == accounts[i].holdings[j] IN
       h.ticker = "aapl" /\ h.costBasis = Num(4) /\ getCurrentPrice(h, priceCache) = Num(7)
  /\ \E i \in DOMAIN accounts : \E j \in DOMAIN accounts[i].holdings :
       LET h == accounts[i].holdings[j] IN
       h.ticker = "BTC" /\ getCurrentPrice(h, priceCache) = Num(3)
  /\ \E i \in DOMAIN accounts : \E j \in DOMAIN accounts[i].holdings :
       getCurrentPrice(accounts[i].holdings[j], priceCache) = Null

\* C3: the net worth, as computed and as rendered, is the sum of the balances
\* of the accounts that are not Debt minus the sum of the balances of the Debt
\* accounts
C3_NetWorthSubtractsDebt ==
  LET RECURSIVE BalanceSum(_)
      BalanceSum(indices) ==
        IF indices = {} THEN 0
        ELSE LET i == CHOOSE i \in indices : TRUE
             IN getAccountBalance(accounts[i], priceCache).v + BalanceSum(indices \ {i})
      debt == {i \in DOMAIN accounts : accounts[i].type = "Debt"}
      expected == BalanceSum(DOMAIN accounts \ debt) - BalanceSum(debt)
  IN getTotalNetWorth = Num(expected) /\ netWorthShown = Num(expected)

\* C3 witness: a render of a list with a Debt account and another account,
\* both with a positive balance, where the debt is the larger one
C3_Witness ==
  /\ lastOp = "rowClick"
  /\ netWorthShown.v < 0
  /\ \E i, k \in DOMAIN accounts :
       /\ accounts[i].type = "Debt" /\ getAccountBalance(accounts[i], priceCache).v > 0
       /\ accounts[k].type # "Debt" /\ getAccountBalance(accounts[k], priceCache).v > 0

\* C4: the balance of an account is the sum of the market values of exactly
\* those holdings whose market value is not null; an account whose holdings
\* all value to null has balance 0
C4_BalanceSkipsNullValues ==
  \A i \in DOMAIN accounts :
    LET a == accounts[i]
        value(j) == getHoldingValue(a.holdings[j], a.type, priceCache)
        valued == {j \in DOMAIN a.holdings : ~IsNullish(value(j))}
        RECURSIVE Sum(_)
        Sum(indices) ==
          IF indices = {} THEN 0
          ELSE LET j == CHOOSE j \in indices : TRUE IN value(j).v + Sum(indices \ {j})
    IN /\ getAccountBalance(a, priceCache) = Num(Sum(valued))
       /\ valued = {} => getAccountBalance(a, priceCache) = Num(0)

\* C4 witness: after a render, an account with a holding that has no price next
\* to one that has, and an account whose only holding has no price
C4_Witness ==
  /\ lastOp = "rowClick"
  /\ \E i \in DOMAIN accounts :
       /\ \E j \in DOMAIN accounts[i].holdings :
            getHoldingValue(accounts[i].holdings[j], accounts[i].type, priceCache) = Null
       /\ \E j \in DOMAIN accounts[i].holdings :
            getHoldingValue(accounts[i].holdings[j], accounts[i].type, priceCache) = Num(14)
       /\ getAccountBalance(accounts[i], priceCache) = Num(14)
  /\ \E i \in DOMAIN accounts :
       /\ Len(accounts[i].holdings) = 1
       /\ getHoldingValue(accounts[i].holdings[1], accounts[i].type, priceCache) = Null
       /\ getAccountBalance(accounts[i], priceCache) = Num(0)

----------------------------------------------------------------------------
(* Properties of the profit and loss of a holding (SpecProfitLoss) *)

\* C11: a holding with quantity Q > 0 and a legacy costBasis C > 0 but no
\* purchasePrice has the same purchase price, cost basis, current price,
\* market value, P/L in dollars and P/L in percent as the holding that carries
\* purchasePrice C/Q instead, under every price cache and price override; when
\* a holding has both fields, its purchase price is the explicit purchasePrice
C11_LegacyEquivalence ==
  \A i \in DOMAIN accounts : \A j \in DOMAIN accounts[i].holdings :
    LET legacy == accounts[i].holdings[j]
        type == accounts[i].type
        explicit == [legacy EXCEPT !.purchasePrice = Divide(legacy.costBasis, legacy.quantity),
                                   !.costBasis = Undef]
    IN /\ (/\ IsNum(legacy.quantity) /\ legacy.quantity.v > 0
           /\ IsNum(legacy.costBasis) /\ legacy.costBasis.v > 0
           /\ legacy.purchasePrice = Undef)
          => /\ getPurchasePrice(legacy) = getPurchasePrice(explicit)
             /\ getHoldingCostBasis(legacy, type) = getHoldingCostBasis(explicit, type)
             /\ getCurrentPrice(legacy, priceCache) = getCurrentPrice(explicit, priceCache)
             /\ getHoldingMarketValue(legacy, type, priceCache)
                  = getHoldingMarketValue(explicit, type, priceCache)
             /\ getHoldingProfitLossDollar(legacy, type, priceCache)
                  = getHoldingProfitLossDollar(explicit, type, priceCache)
             /\ getHoldingProfitLossPct(legacy, type, priceCache)
                  = getHoldingProfitLossPct(explicit, type, priceCache)
       /\ (IsNum(legacy.purchasePrice) /\ IsNum(legacy.costBasis))
          => getPurchasePrice(legacy) = legacy.purchasePrice

\* C11 witness: the expanded Retirement account shows a legacy holding of 2
\* units bought for 4 in total and quoted at 8: purchase price 2, up 300 percent
C11_Witness ==
  /\ lastOp = "rowClick"
  /\ \E i \in DOMAIN accounts : \E j \in DOMAIN accounts[i].holdings :
       LET h == accounts[i].holdings[j] IN
       /\ expandedAccountId = accounts[i].id
       /\ accounts[i].type = "Retirement"
       /\ h.purchasePrice = Undef /\ h.quantity = Num(2) /\ h.costBasis = Num(4)
       /\ getPurchasePrice(h) = Num(2)
       /\ getCurrentPrice(h, priceCache) = Num(8)
       /\ getHoldingProfitLossPct(h, accounts[i].type, priceCache) = Num(300)

\* C12: the P/L in percent of a holding is null whenever its cost basis is 0 or
\* null (every holding of a Cash or Debt account, a security holding with
\* purchase price 0 or quantity 0), and it is always null or a finite number,
\* never NaN and never an infinity
C12_ProfitLossPctNullOrFinite ==
  \A i \in DOMAIN accounts : \A j \in DOMAIN accounts[i].holdings :
    LET h == accounts[i].holdings[j]
        type == accounts[i].type
        cb == getHoldingCostBasis(h, type)
        pct == getHoldingProfitLossPct(h, type, priceCache)
    IN /\ ~isSecurityType(type) => IsNullish(cb)
       /\ (IsNullish(cb) \/ cb = Num(0)) => pct = Null
       /\ pct = Null \/ IsNum(pct)

C14_HoldingValueByAccountType ==
  \A i \in DOMAIN accounts : \A j \in DOMAIN accounts[i].holdings :
    LET h == accounts[i].holdings[j]
        type == accounts[i].type
        price == getCurrentPrice(h, priceCache)
        value == getHoldingValue(h, type, priceCache)
    IN /\ getHoldingMarketValue(h, type, priceCache) = value
       /\ type \in {"Retirement", "Crypto"} =>
            value = (IF IsNullish(price) THEN Null ELSE Times(h.quantity, price))
       /\ type \in {"Cash", "Debt"} =>
            \A cache \in PlCaches :
              getHoldingValue(h, type, cache) = (IF IsNum(h.balance) THEN h.balance ELSE Num(0))

\* C14 witness: the expanded Crypto account shows 2 units bought at 1 each and
\* quoted at 8 in the cache: market value 16
C14_Witness ==
  /\ lastOp = "rowClick"
  /\ \E i \in DOMAIN accounts : \E j \in DOMAIN accounts[i].holdings :
       LET h == accounts[i].holdings[j] IN
       /\ expandedAccountId = accounts[i].id
       /\ accounts[i].type = "Crypto"
       /\ h.quantity = Num(2) /\ h.purchasePrice = Num(1) /\ h.priceOverride = Undef
       /\ getCurrentPrice(h, priceCache) = Num(8)
       /\ getHoldingMarketValue(h, accounts[i].type, priceCache) = Num(16)

----------------------------------------------------------------------------
(* Properties of the forecast functions (SpecForecast) *)

\* C15: a monthsContributing greater than the total months n (Infinity
\* included) gives the future value of monthsContributing = n, and a negative
\* monthsContributing gives that of 0
C15_ContributionMonthsClamped ==
  LET f == forecast
      n == MathMax(Num(0), Floor(f.totalMonths))
      mc == f.monthsContributing
      isGreater == \/ IsInf(mc) /\ mc.v > 0
                   \/ IsNum(mc) /\ mc.v > n.v
                   \/ mc.k = "half" /\ mc.v >= n.v
      isNegative == (IsNum(mc) \/ mc.k = "half") /\ mc.v < 0
      FV(m) == futureValueWithContributions(f.pv, f.pmt, f.annualPercent, m, f.totalMonths)
  IN f.futureValue # Undef =>
       /\ isGreater => f.futureValue = FV(n)
       /\ isNegative => f.futureValue = FV(Num(0))

\* C15 witness: 1 at 1 a month, doubling every month, projected over 2 months
\* with contributions that never stop: 1 * 4 + 1 * 3 = 7
C15_Witness ==
  /\ forecast.pv = Num(1) /\ forecast.pmt = Num(1) /\ forecast.annualPercent = Num(409500)
  /\ forecast.monthsContributing = Infinity /\ forecast.totalMonths = Num(2)
  /\ forecast.futureValue = Num(7)

\* C16: at the annual rate 0 the future value of pv with payment pmt over whole
\* m and n >= 0 is the number pv + pmt * min(max(m, 0), n)
C16_ZeroRateIsLinear ==
  LET f == forecast
      min(a, b) == IF a < b THEN a ELSE b
      max(a, b) == IF a < b THEN b ELSE a
  IN (/\ f.futureValue # Undef
      /\ f.annualPercent = Num(0)
      /\ IsNum(f.pv) /\ IsNum(f.pmt)
      /\ IsNum(f.monthsContributing) /\ IsNum(f.totalMonths) /\ f.totalMonths.v >= 0)
     => f.futureValue
          = Num(f.pv.v + f.pmt.v * min(max(f.monthsContributing.v, 0), f.totalMonths.v))

\* C16 witness: 1 with 2 a month for 1 of 2 months at rate 0 is 3
C16_Witness ==
  /\ forecast.pv = Num(1) /\ forecast.pmt = Num(2) /\ forecast.annualPercent = Num(0)
  /\ forecast.monthsContributing = Num(1) /\ forecast.totalMonths = Num(2)
  /\ forecast.futureValue = Num(3)

\* C17: for whole 0 <= m <= n the future value is the value reached at month
\* m, grown for n - m months without contribution; with m = 0 it is
\* pv * (1 + i)^n whatever the payment
C17_TwoPhaseProjection ==
  LET f == forecast
      m == f.monthsContributing
      n == f.totalMonths
      growth == Plus(Num(1), monthlyRateFromAnnual(f.annualPercent))
  IN (/\ f.futureValue # Undef
      /\ IsNum(m) /\ IsNum(n) /\ 0 <= m.v /\ m.v <= n.v)
     => /\ f.futureValue
             = Times(futureValueWithContributions(f.pv, f.pmt, f.annualPercent, m, m),
                     MathPow(growth, Minus(n, m)))
        /\ m = Num(0) =>
             /\ f.futureValue = Times(NumberOrZero(f.pv), MathPow(growth, n))
             /\ \A pmt \in PmtInputs :
                  futureValueWithContributions(f.pv, pmt, f.annualPercent, m, n) = f.futureValue

\* C17 witness: 1 with 1 a month for 1 of 2 months, doubling every month:
\* 3 after the first month, 6 after the second
C17_Witness ==
  /\ forecast.pv = Num(1) /\ forecast.pmt = Num(1) /\ forecast.annualPercent = Num(409500)
  /\ forecast.monthsContributing = Num(1) /\ forecast.totalMonths = Num(2)
  /\ futureValueWithContributions(Num(1), Num(1), Num(409500), Num(1), Num(1)) = Num(3)
  /\ forecast.futureValue = Num(6)

\* C18: the months to pay off are 0 whenever the present value is <= 0, whatever
\* the payment and the rate; for a present value > 0 they are null whenever
\* the payment is <= 0 or <= present value * monthly rate
C18_PayoffPaidOffOrNever ==
  LET f == forecast
      monthlyRate == monthlyRateFromAnnual(f.annualPercent).v
  IN (f.monthsToPayoff # Undef /\ IsNum(f.pv))
     => /\ f.pv.v <= 0 => f.monthsToPayoff = Num(0)
        /\ (f.pv.v > 0 /\ (f.pmt.v <= 0 \/ f.pmt.v <= f.pv.v * monthlyRate))
             => f.monthsToPayoff = Null

\* C18 witness: nothing owed and nothing paid gives 0 months, not null
C18_Witness ==
  /\ forecast.pv = Num(0) /\ forecast.pmt = Num(0)
  /\ forecast.monthsToPayoff = Num(0)

\* C19: for an annual rate from -20 to 50, 0 included, the months to pay off
\* are null or a whole number >= 0, never negative, infinite or NaN
C19_PayoffNullOrWholeMonths ==
  LET f == forecast
      rate == NumberOrZero(f.annualPercent).v
  IN (f.monthsToPayoff # Undef /\ -20 <= rate /\ rate <= 50)
     => \/ f.monthsToPayoff = Null
        \/ IsNum(f.monthsToPayoff) /\ f.monthsToPayoff.v >= 0

----------------------------------------------------------------------------
(* Properties of the start-up (SpecLoad) *)

\* C20: when the stored account list, snapshot history or forecast settings
\* is absent or not valid JSON, or one of the two lists is not an array,
\* loading gives the empty account list, the empty history, the default
\* settings, and the start-up goes on to render
C20_LoadFallsBack ==
  LET unreadable(item) == item.k \in {"absent", "text"}
      notAList(item) == unreadable(item) \/ item.k # "array"
  IN /\ (lastOp # "start" /\ notAList(localStorage.accounts)) =>
          /\ accounts = <<>>
          /\ netWorthShown = Num(0) /\ saveTimer.pending # {}
     /\ notAList(localStorage.history) => getNetWorthHistory(localStorage.history) = <<>>
     /\ unreadable(localStorage.settings) =>
          getForecastSettings(localStorage.settings) = DefaultSettings

\* C20 witness: the page has loaded and rendered with an account item that is
\* not JSON, a history item that is an object and no settings item
C20_Witness ==
  /\ lastOp = "loaded"
  /\ localStorage.accounts = NotJson
  /\ localStorage.history = Item("object", <<NoFields>>)
  /\ localStorage.settings = Absent
  /\ accounts = <<>> /\ saveTimer.pending # {}
  /\ getNetWorthHistory(localStorage.history) = <<>>
  /\ getForecastSettings(localStorage.settings) = DefaultSettings

----------------------------------------------------------------------------
(* Properties of the snapshot history (SpecHistory) *)

\* C21: after any sequence of record-snapshot, edit-snapshot and
\* delete-snapshot operations from an empty history, the stored history is
\* sorted by date in non-decreasing order
C21_HistorySortedByDate ==
  LET history == getNetWorthHistory(localStorage.history) IN
  \A i, j \in DOMAIN history :
    i < j => DateRank[history[i].date] <= DateRank[history[j].date]

\* C21 witness: an edit has moved the first of two recorded snapshots behind
\* the other by giving it a later date (and the total 3)
C21_Witness ==
  LET history == getNetWorthHistory(localStorage.history) IN
  /\ lastOp = "edited"
  /\ Len(history) = 2
  /\ history[1].date = "2026-01-02" /\ history[1].totalNetWorth = Num(5)
  /\ history[2].date = "2026-01-03" /\ history[2].totalNetWorth = Num(3)

\* C22: both money formatters return the placeholder dash for a null,
\* undefined or NaN amount; here for the totals that the snapshot list and
\* the summary show
C22_FormattersShowDash ==
  LET history == getNetWorthHistory(localStorage.history) IN
  \A i \in DOMAIN history :
    LET n == history[i].totalNetWorth IN
    IsNullish(n) \/ IsNaN(n) => formatMoney(n) = "--" /\ formatMoneyFull(n) = "--"

----------------------------------------------------------------------------
(* Termination of refreshAllPrices (SpecSyncFair) *)

\* C23: every started refreshAllPrices run terminates when every
\* request settles: a run starts with every distinct ticker held in a
\* Retirement or Crypto account, after each delay it fetches its next ticker
\* or, with no ticker left, re-renders and ends; and no run stays unfinished
\* for ever (infinitely often no run is in progress, or the oldest run ends)
C23_EveryTickerAttempted ==
  /\ [][/\ Len(syncs') > Len(syncs) =>
            LET run == syncs'[Len(syncs')]
                tickers == run.crypto \o run.ret
            IN /\ {tickers[k] : k \in DOMAIN tickers}
                    = UNION {{ToUpperCase(Trim(accounts'[a].holdings[j].ticker)) :
                                j \in {j \in DOMAIN accounts'[a].holdings :
                                         Truthy(accounts'[a].holdings[j].ticker)}} :
                             a \in {a \in DOMAIN accounts' : isSecurityType(accounts'[a].type)}}
               /\ \A k, l \in DOMAIN tickers : tickers[k] = tickers[l] => k = l
               /\ run.pc \in FetchPcs
       /\ \A i \in DOMAIN syncs :
            DelayElapsed(i) =>
              LET left == Len(syncs[i].crypto) + Len(syncs[i].ret) IN
              IF Len(syncs') < Len(syncs)
                THEN left = 1 /\ netWorthShown' = NetWorthOf(accounts, priceCache)
                ELSE /\ left > 1
                     /\ Len(syncs'[i].crypto) + Len(syncs'[i].ret) = left - 1
                     /\ syncs'[i].pc \in FetchPcs]_vars
  /\ \/ []<>(syncs = <<>>)
     \/ []<><<DelayElapsed(1) /\ Len(syncs') < Len(syncs)>>_vars

\* C23 witness: a run started with BTC and AAPL has passed BTC, whose fetch
\* failed (the cache holds the earlier price), and waits after AAPL
C23_Witness ==
  /\ Len(syncs) = 1
  /\ syncs[1].crypto = <<>>
  /\ syncs[1].ret = <<"AAPL">>
  /\ syncs[1].pc = "fhSleep"
  /\ priceCache = "BTC" :> 5
  /\ apiKey = "k1"

----------------------------------------------------------------------------
(* Frame conditions of the ledger (Spec) *)

\* C24: an account's id never changes after creation: a submission of the
\* edit-account form leaves every account's id and holdings and every other
\* account as they were, and no step rewrites the id of an existing account
\* (the ids of the list stay in place, accounts are only removed or appended)
C24_AccountIdNeverChanges ==
  [][LET ids == [i \in DOMAIN accounts |-> accounts[i].id]
         ids2 == [i \in DOMAIN accounts' |-> accounts'[i].id]
     IN /\ EditAccountStep =>
             /\ DOMAIN accounts' = DOMAIN accounts
             /\ \A i \in DOMAIN accounts :
                  /\ accounts'[i].id = accounts[i].id
                  /\ accounts'[i].holdings = accounts[i].holdings
             /\ \A i, j \in DOMAIN accounts :
                  accounts'[i] # accounts[i] /\ accounts'[j] # accounts[j] => i = j
        /\ Len(ids2) = Len(ids) => ids2 = ids
        /\ Len(ids2) > Len(ids) => SubSeq(ids2, 1, Len(ids)) = ids
        /\ Len(ids2) < Len(ids) =>
             ids2 = SelectSeq(ids, LAMBDA x : \E i \in DOMAIN ids2 : ids2[i] = x)]_vars

\* C24 witness: a Cash account with a balance holding was edited into a
\* Retirement account and has kept its id and its holding
C24_Witness ==
  /\ lastOp = "done"
  /\ Len(accounts) = 1
  /\ accounts[1].id = 1
  /\ accounts[1].type = "Retirement"
  /\ Len(accounts[1].holdings) = 1
  /\ accounts[1].holdings[1].ticker = NoTicker

----------------------------------------------------------------------------
(* The deferred save (SpecSaveFair) *)

----------------------------------------------------------------------------
(* Sync without an API key (SpecPrompt) *)

\* C27 as stated: with no API key stored and a ticker held in a Retirement
\* account, a click on Sync starts no run and no fetch, and the price cache
\* stays as it is while no key is saved; otherwise the click starts
\* refreshAllPrices; and no run fetches a stock quote while the key is empty
C27_NoFetchWithoutKey ==
  [][LET hasRetirement ==
           \E i \in DOMAIN accounts :
             /\ accounts[i].type = "Retirement"
             /\ \E j \in DOMAIN accounts[i].holdings : Truthy(accounts[i].holdings[j].ticker)
     IN /\ hasRetirement /\ apiKey = "" =>
             /\ SyncClick => UNCHANGED <<syncs, priceCache, apiKey>>
             /\ apiKey' = "" => priceCache' = priceCache
        /\ ~(hasRetirement /\ apiKey = "") /\ SyncClick =>
             IF NewRun(accounts, apiKey).pc = "done"
               THEN syncs' = syncs /\ netWorthShown' = NetWorthOf(accounts, priceCache)
               ELSE syncs' = Append(syncs, NewRun(accounts, apiKey))
        /\ \A i \in DOMAIN syncs' : syncs'[i].pc = "fhFetch" => apiKey' # ""]_vars

\* C27, amended: with no API key stored and a ticker held in a Retirement
\* account, a click on Sync starts no run and no fetch and leaves the price
\* cache as it is, no run starts while no key is saved, and the cache changes
\* only through a run that was started before; otherwise the click starts
\* refreshAllPrices; and no run fetches a stock quote while the key is empty
C27_NoRunWithoutKey ==
  [][LET hasRetirement ==
           \E i \in DOMAIN accounts :
             /\ accounts[i].type = "Retirement"
             /\ \E j \in DOMAIN accounts[i].holdings : Truthy(accounts[i].holdings[j].ticker)
     IN /\ hasRetirement /\ apiKey = "" =>
             /\ SyncClick => UNCHANGED <<syncs, priceCache, apiKey>>
             /\ apiKey' = "" => /\ Len(syncs') <= Len(syncs)
                                /\ priceCache' # priceCache => syncs # <<>>
        /\ ~(hasRetirement /\ apiKey = "") /\ SyncClick =>
             IF NewRun(accounts, apiKey).pc = "done"
               THEN syncs' = syncs /\ netWorthShown' = NetWorthOf(accounts, priceCache)
               ELSE syncs' = Append(syncs, NewRun(accounts, apiKey))
        /\ \A i \in DOMAIN syncs' : syncs'[i].pc = "fhFetch" => apiKey' # ""]_vars

\* C27 witness: no key is stored and the Retirement account holds BTC, so a
\* click on Sync opens the prompt, while a run started when the account was a
\* Crypto account has cached a new quote
C27_Witness ==
  /\ apiKey = ""
  /\ Len(accounts) = 1
  /\ accounts[1].type = "Retirement"
  /\ \E j \in DOMAIN accounts[1].holdings : accounts[1].holdings[j].ticker = "BTC"
  /\ Len(syncs) = 1
  /\ priceCache["BTC"] = 7

----------------------------------------------------------------------------
(* The price cache (SpecSync) *)

\* C28: in every reachable state each entry of the price cache holds a price
\* > 0 under a trimmed, uppercased ticker; no step removes an entry, and an
\* entry changes only to a fetched quote that is a number > 0
C28_CacheHoldsPositiveQuotes ==
  /\ [](\A k \in DOMAIN priceCache :
          priceCache[k] > 0 /\ k = ToUpperCase(Trim(k)))
  /\ [][/\ DOMAIN priceCache \subseteq DOMAIN priceCache'
        /\ \A k \in DOMAIN priceCache' :
             k \notin DOMAIN priceCache \/ priceCache'[k] # priceCache[k] =>
               \E body \in DOMAIN QuoteOf : QuoteOf[body] > 0 /\ priceCache'[k] = QuoteOf[body]]_vars

\* C28 witness: the quote fetched for the holding "aapl" is cached under AAPL
\* next to the earlier entry of BTC, and a later run is fetching AAPL again
C28_Witness ==
  /\ DOMAIN priceCache = {"AAPL", "BTC"}
  /\ priceCache["AAPL"] = 7
  /\ \E j \in DOMAIN accounts[1].holdings : accounts[1].holdings[j].ticker = "aapl"
  /\ \E i \in DOMAIN syncs : syncs[i].pc = "fhFetch" /\ Head(syncs[i].ret) = "AAPL"

----------------------------------------------------------------------------
(* The projection of the accounts (SpecProjection) *)

\* C29: at year 0 the projection is the present: for every account the
\* projected balance at year 0 equals its balance, and the projected total
\* net worth at year 0 equals the total net worth, for every account list
\* (overdrawn Cash and Debt balances included) and every forecast setting
C29_ProjectionAtYearZeroIsPresent ==
  /\ \A i \in DOMAIN accounts :
       getProjectedAccountBalance(accounts[i].id, 0) = getAccountBalance(accounts[i], priceCache)
  /\ getProjectedTotalNetWorth(0) = getTotalNetWorth

\* C30: for every account, every year from 0 to the horizon and every forecast
\* setting with a monthly payment >= 0 and an annual rate from -20 to 50, the
\* projected balance is a number >= 0, never NaN; for a Debt account whose
\* count of payoff months P is not null, the projected balance owed is 0 at
\* every year y with 12 * y >= P
C30_ProjectionNeverNegative ==
  \A i \in DOMAIN accounts, y \in 0..MaxYears :
    LET acc == forecastAccount(accounts[i].id)
        monthlyPmt == NumberOrZero(NumberOf(acc.monthlyContribution))
        annual == NumberOrZero(NumberOf(acc.annualReturnPercent))
        P == monthsToPayoffLoan(getAccountBalance(accounts[i], priceCache), monthlyPmt, annual)
        projected == getProjectedAccountBalance(accounts[i].id, y)
    IN /\ ~Less(getForecastSettings(localStorage.settings).horizonYears, Num(y))
       /\ ~Less(monthlyPmt, Num(0))
       /\ ~Less(annual, Num(-20)) /\ ~Less(Num(50), annual)
       => /\ IsNum(projected) /\ projected.v >= 0
          /\ accounts[i].type = "Debt" /\ IsNum(P) /\ 12 * y >= P.v => projected = Num(0)

====
